---- MODULE Spec2Model ----
(***************************************************************************)
(* A model of the AIGC gateway (Frey-Fu/VolcAIGCToolBoard):                *)
(*   - TOSUploader (modules/tos_utils.py): the content-addressed upload    *)
(*     cache and the two-step upload (tosutil cp, tosutil set-acl);        *)
(*   - ModuleManager / MainRequestHandler (main_server.py): registration   *)
(*     and route resolution;                                               *)
(*   - parse_multipart_form_data (modules/*.py): the multipart decoder;    *)
(*   - the status poll loops of the test clients (tests/);                 *)
(*   - SeedreamModule._call_api_with_retry: retry on submit;               *)
(*   - do_GET / do_POST with the handlers of the modules: a request from   *)
(*     its arrival to its response;                                        *)
(*   - run_server's serve_forever: one serving thread;                     *)
(*   - the TOSUploader that each module constructs;                        *)
(*   - TextToVideoModule._create_video_task: the instruction text.         *)
(* Each component has its own specification over the shared variables; a   *)
(* component that a specification does not run keeps its initial value.    *)
(*                                                                         *)
(* Fault model: the external commands and requests (tosutil, the upstream  *)
(* HTTP service) may succeed, fail, time out or raise; operations on the   *)
(* local temporary file do not fail.                                       *)
(***************************************************************************)
EXTENDS Naturals, Integers, Sequences, FiniteSets, TLC

VARIABLES
    \* ---- TOSUploader
    enable_cache,   \* self.enable_cache
    upload_cache,   \* self.upload_cache: md5 hexdigest -> url
    writes,         \* the bucket, per content: tosutil cp runs / runs that succeeded
    now,            \* the wall clock, in seconds, when upload_file last read it
    pc,             \* per caller: where it stands inside upload_file
    call,           \* per caller: the arguments and locals of its upload_file
    log,            \* the operations that returned, in the order they returned
    nops,           \* operations begun so far
    \* ---- ModuleManager, MainRequestHandler
    routes,         \* per module: the keys of its get_routes(), in order
    modules,        \* ModuleManager.modules: the names, in insertion order
    route_map,      \* ModuleManager.route_map: (route, module), in insertion order
    mstate,         \* per module: BaseModule.state
    serving,        \* run_server has reached serve_forever
    reg_failed,     \* a register_module call has returned False
    reg_result,     \* per module: what its last register_module call returned
    resp,           \* the last request and what do_GET / do_POST answered
    \* ---- parse_multipart_form_data
    fields,         \* the parts the client put in the form, in order
    content_type,   \* the request's Content-Type header
    body,           \* the request body: a sequence of bytes; <<>> before it is sent
    sent,           \* the kind of body the client sent, "no" before
    decoder,        \* the module whose decoder has run, None before
    form_data,      \* what the decoder returned
    \* ---- the poll loops: query_status, query_task_status
    poll_impl,      \* which of the two loops runs
    max_attempts,   \* its attempts / max_attempts argument
    lookups,        \* status lookups (requests.get) made so far
    poll_pc,        \* "idle", "loop", or the statement that ended the call
    poll_result,    \* the value returned, once poll_pc is a return
    last_resp,      \* what the last lookup got
    only_running,   \* every lookup so far got a 200 with a non-terminal status
    terminal_at,    \* the first lookup that got a terminal status, 0 if none
    \* ---- SeedreamModule._call_api_with_retry
    max_retries,    \* self.max_retries
    attempt,        \* the loop variable
    calls,          \* visual_service.cv_process calls made so far
    sleeps,         \* time.sleep(self.retry_delay) calls made so far
    retry_pc,       \* "loop" or "returned"
    retry_result,   \* the value returned: "response" or None
    last_error,     \* str(api_error) of the last failed attempt
    app_error_at,   \* the call that first failed with no network indicator, 0 if none
    \* ---- do_GET / do_POST and the submission handlers
    req,            \* the request being handled, NoRequest between requests
    h_pc,           \* "idle", "upload", "upstream" or "done"
    slot,           \* the file field whose upload is under way
    image_urls,     \* urls collected from uploads that succeeded
    uploads,        \* tos_uploader.upload_file calls made for this request
    upstream,       \* how the upstream answered the submission, "none" before
    reply,          \* the status, body and exception of that answer
    response,       \* the response of the request, NoResponse before
    payload,        \* what else the response body carries
    task_key,       \* the API key under which the last video task was created
    \* ---- serve_forever of socketserver.TCPServer
    connections,    \* connections that clients have opened so far
    backlog,        \* connections in the listen queue, not yet accepted
    handling,       \* the route of the request being handled, None if none
    httpd_pc,       \* where the one serving thread is
    retries,        \* the handler's attempt counter in _call_api_with_retry
    \* ---- the TOSUploader of each module
    module_cache,   \* per module: the keys of its tos_uploader.upload_cache
    n_uploads,      \* upload_file calls made so far
    last_upload,    \* the last upload_file call and what it did
    \* ---- TextToVideoModule._create_video_task
    gen_params,     \* resolution, aspect_ratio, duration, seed, fixed_camera
    request_text    \* request_data["content"][0]["text"], as tokens

uvars == <<enable_cache, upload_cache, writes, now, pc, call, log, nops>>

rvars ==
    <<routes, modules, route_map, mstate, serving, reg_failed, reg_result, resp>>

mvars == <<fields, content_type, body, sent, decoder, form_data>>

pvars ==
    <<poll_impl, max_attempts, lookups, poll_pc, poll_result, last_resp,
      only_running, terminal_at>>

tvars ==
    <<max_retries, attempt, calls, sleeps, retry_pc, retry_result, last_error,
      app_error_at>>

gvars ==
    <<req, h_pc, slot, image_urls, uploads, upstream, reply, response, payload,
      task_key>>

svars == <<connections, backlog, handling, httpd_pc, retries>>

cvars == <<module_cache, n_uploads, last_upload>>

ivars == <<gen_params, request_text>>

vars == <<uvars, rvars, mvars, pvars, tvars, gvars, svars, cvars, ivars>>

None == "None"

-----------------------------------------------------------------------------
(* Bounds                                                                  *)

NumContents == 2
NumCallers == 2
MaxOps == 3
MaxTime == 1
NumModules == 2
MaxPathLen == 4
MaxParts == 2
MaxAttempts == 2
MaxRetries == 3

NumSlots == 2

MaxImages == 1

MaxConnections == 4

MaxUploads == 3

-----------------------------------------------------------------------------
(* TOSUploader                                                             *)

Contents == 1..NumContents
Filenames == {"a.png", "b.png"}
Callers == 1..NumCallers

\* hashlib.md5(file_content).hexdigest(): a digest per content; its first
\* element stands for the first 8 hex digits, which two contents may share.
Md5Hex(c) == <<(c + 1) \div 2, c>>

\* file_hash = hexdigest()[:8]
FileHash(c) == Md5Hex(c)[1]

\* unique_filename = f"{timestamp}_{file_hash}_{filename}"
UniqueFilename(ts, c, f) == <<ts, FileHash(c), f>>

\* file_url = f"{self.base_url}/{unique_filename}": the base is fixed, so a
\* url is identified by its object key.
FileUrl(key) == key

\* {}; also stands for the None that upload_cache is with the cache disabled:
\* the code reads it under enable_cache or by truthiness only, where None and
\* {} behave alike
EmptyMap == <<>>

MapPut(m, k, v) == [x \in (DOMAIN m) \cup {k} |-> IF x = k THEN v ELSE m[x]]

\* for a mutant: the cache check never hits
CacheHitNever(cache, enabled, key) == FALSE

\* lines 58-60: if self.enable_cache: ... if cache_key in self.upload_cache
CacheHit(cache, enabled, key) == enabled /\ key \in DOMAIN cache

\* for a mutant: the url is cached whatever the upload returned
CacheAfterUploadAlways(cache, enabled, key, url, rc) ==
    IF enabled THEN MapPut(cache, key, url) ELSE cache

\* lines 82, 99-101: the cache is written on returncode == 0 only
CacheAfterUpload(cache, enabled, key, url, rc) ==
    IF rc = "ok" /\ enabled THEN MapPut(cache, key, url) ELSE cache

\* for a mutant: a cache hit returns the url this call would have used
HitUrlFresh(cache, key, fresh) == fresh

\* line 63: "url": self.upload_cache[cache_key]
HitUrl(cache, key, fresh) == cache[key]

NoUrl == <<>>

NoCall == [content |-> 0, filename |-> None, pub |-> FALSE, key |-> NoUrl]

\* what upload_file returned (success, url, cached, error), with what the
\* call did on the way: whether it ran the storage write, whether it
\* changed the cache, and how its set-acl run ended ("none" when it ran none)
Returned(c, f, ok, url, cached, wrote, changed, err) ==
    [op |-> "upload", content |-> c, filename |-> f, success |-> ok,
     url |-> url, cached |-> cached, wrote |-> wrote,
     cache_changed |-> changed, error |-> err, acl |-> "none"]

Cleared ==
    [op |-> "clear", content |-> 0, filename |-> None, success |-> TRUE,
     url |-> NoUrl, cached |-> FALSE, wrote |-> FALSE,
     cache_changed |-> FALSE, error |-> None, acl |-> "none"]

CountWrite(w, c, ok) ==
    [w EXCEPT ![c] = [tried |-> @.tried + 1,
                      ok |-> @.ok + (IF ok THEN 1 ELSE 0)]]

InitUploader ==
    /\ enable_cache \in BOOLEAN
    /\ upload_cache = EmptyMap
    /\ writes = [c \in Contents |-> [tried |-> 0, ok |-> 0]]
    /\ now = 0
    /\ pc = [t \in Callers |-> "idle"]
    /\ call = [t \in Callers |-> NoCall]
    /\ log = <<>>
    /\ nops = 0

\* an uploader as a module constructs it (enable_cache=True) and never used
IdleUploader == InitUploader /\ enable_cache

\* upload_file, lines 51-70: names the object, checks the cache and either
\* returns the cached url or goes on to the storage write
UploadBegin(t, c, f, pub, ts) ==
    /\ pc[t] = "idle"
    /\ nops < MaxOps
    /\ nops' = nops + 1
    /\ now' = ts
    /\ LET key == UniqueFilename(ts, c, f)
           cache_key == Md5Hex(c)
       IN IF CacheHit(upload_cache, enable_cache, cache_key)
          THEN /\ log' = Append(log, Returned(c, f, TRUE,
                            HitUrl(upload_cache, cache_key, FileUrl(key)),
                            TRUE, FALSE, FALSE, None))
               /\ UNCHANGED <<pc, call>>
          ELSE /\ pc' = [pc EXCEPT ![t] = "write"]
               /\ call' = [call EXCEPT ![t] =
                      [content |-> c, filename |-> f, pub |-> pub, key |-> key]]
               /\ UNCHANGED log
    /\ UNCHANGED <<enable_cache, upload_cache, writes>>

\* lines 96-107: the url is built and cached, and success is returned
UploadSucceed(t, acl) ==
    LET c == call[t].content
        url == FileUrl(call[t].key)
    IN /\ upload_cache' = CacheAfterUpload(upload_cache, enable_cache,
                                           Md5Hex(c), url, "ok")
       /\ log' = Append(log, [Returned(c, call[t].filename, TRUE, url, FALSE,
                                TRUE, upload_cache' # upload_cache, None)
                              EXCEPT !.acl = acl])
       /\ pc' = [pc EXCEPT ![t] = "idle"]
       /\ call' = [call EXCEPT ![t] = NoCall]

\* lines 108-112 and 118-122: a failure is returned
UploadFail(t, err, acl) ==
    LET c == call[t].content
    IN /\ upload_cache' = CacheAfterUpload(upload_cache, enable_cache,
                                           Md5Hex(c), FileUrl(call[t].key), err)
       /\ log' = Append(log, [Returned(c, call[t].filename, FALSE, NoUrl, FALSE,
                                TRUE, upload_cache' # upload_cache, err)
                              EXCEPT !.acl = acl])
       /\ pc' = [pc EXCEPT ![t] = "idle"]
       /\ call' = [call EXCEPT ![t] = NoCall]

\* line 80: subprocess.run(upload_cmd, timeout=30): returncode 0, returncode
\* non-zero, or TimeoutExpired / OSError raised
UploadWrite(t, rc) ==
    /\ pc[t] = "write"
    /\ writes' = CountWrite(writes, call[t].content, rc = "ok")
    /\ CASE rc = "ok" /\ call[t].pub ->
                /\ pc' = [pc EXCEPT ![t] = "acl"]
                /\ UNCHANGED <<upload_cache, log, call>>
         [] rc = "ok" /\ ~call[t].pub -> UploadSucceed(t, "none")
         [] rc = "failed" -> UploadFail(t, "upload_failed", "none")
         [] OTHER -> UploadFail(t, "exception", "none")
    /\ UNCHANGED <<enable_cache, now, nops>>

\* lines 84-94: subprocess.run(acl_cmd, timeout=30): a non-zero returncode
\* only prints a warning; a raised exception leaves through line 118
UploadAcl(t, rc) ==
    /\ pc[t] = "acl"
    /\ IF rc = "raised" THEN UploadFail(t, "exception", rc) ELSE UploadSucceed(t, rc)
    /\ UNCHANGED <<enable_cache, writes, now, nops>>

\* for a mutant: clear_cache leaves the entries in place
ClearCacheKeeps ==
    /\ nops < MaxOps
    /\ nops' = nops + 1
    /\ log' = Append(log, Cleared)
    /\ UNCHANGED <<enable_cache, upload_cache, writes, now, pc, call>>

\* clear_cache, lines 124-127
ClearCache ==
    /\ nops < MaxOps
    /\ nops' = nops + 1
    /\ upload_cache' = IF DOMAIN upload_cache # {} THEN EmptyMap ELSE upload_cache
    /\ log' = Append(log, Cleared)
    /\ UNCHANGED <<enable_cache, writes, now, pc, call>>

\* get_cache_size, lines 129-131
GetCacheSize ==
    IF DOMAIN upload_cache # {} THEN Cardinality(DOMAIN upload_cache) ELSE 0

\* datetime.now() at line 54: the clock has not gone back since the last call
Times == now..MaxTime

Outcomes == {"ok", "failed", "raised"}

NoneInFlight == \A t \in Callers : pc[t] = "idle"

\* main_server.py serves with socketserver.TCPServer: one request at a time,
\* so an upload_file begins only when no other is in progress
BeginSerial ==
    /\ UNCHANGED <<rvars, mvars, pvars, tvars, gvars, svars, cvars, ivars>>
    /\ NoneInFlight
    /\ \E c \in Contents, f \in Filenames, pub \in BOOLEAN, ts \in Times :
          UploadBegin(1, c, f, pub, ts)

WriteStep == UNCHANGED <<rvars, mvars, pvars, tvars, gvars, svars, cvars, ivars>> /\ \E t \in Callers, rc \in Outcomes : UploadWrite(t, rc)

AclStep == UNCHANGED <<rvars, mvars, pvars, tvars, gvars, svars, cvars, ivars>> /\ \E t \in Callers, rc \in Outcomes : UploadAcl(t, rc)

ClearSerial == UNCHANGED <<rvars, mvars, pvars, tvars, gvars, svars, cvars, ivars>> /\ NoneInFlight /\ ClearCache

\* callers on several threads: TOSUploader holds no lock
BeginThread ==
    /\ UNCHANGED <<rvars, mvars, pvars, tvars, gvars, svars, cvars, ivars>>
    /\ \E t \in Callers, c \in Contents, f \in Filenames, pub \in BOOLEAN, ts \in Times :
        UploadBegin(t, c, f, pub, ts)

-----------------------------------------------------------------------------
(* ModuleManager and MainRequestHandler (main_server.py)                   *)

Modules == 1..NumModules

NoModule == 0

\* a path or a route is a string: a sequence of characters
Chars == {"/", "a", "b"}

RECURSIVE StringsOfLen(_)
StringsOfLen(n) ==
    IF n = 0 THEN {<<>>}
    ELSE {Append(p, ch) : p \in StringsOfLen(n - 1), ch \in Chars}

\* the request paths: urlparse(self.path).path
Paths == {p \in UNION {StringsOfLen(n) : n \in 1..MaxPathLen} : p[1] = "/"}

\* what a module's get_routes() may be: exact routes and routes ending in '/'
RouteListSeq ==
    << << <<"/", "a", "/">> >>,
       << <<"/", "a", "/", "b">> >>,
       << <<"/", "b">>, <<"/", "a", "/">> >>,
       << <<"/", "a", "/", "b">>, <<"/", "b", "/">> >> >>

RouteLists == {RouteListSeq[i] : i \in DOMAIN RouteListSeq}

\* the assignments of route lists to modules, one per assignment up to a
\* renaming of the modules: register_module may be called on the modules in
\* any order, so a renaming changes no behaviour
RouteAssignments ==
    { [m \in Modules |-> RouteListSeq[idx[m]]] :
        idx \in {f \in [Modules -> DOMAIN RouteListSeq] :
                    \A m1, m2 \in Modules : m1 <= m2 => f[m1] <= f[m2]} }

\* str.startswith
StartsWith(p, r) == Len(r) <= Len(p) /\ SubSeq(p, 1, Len(r)) = r

\* route.endswith('/')
EndsWithSlash(r) == Len(r) > 0 /\ r[Len(r)] = "/"

\* self.route_map[route] = module: a dict keeps a key's first position
RouteMapPut(rm, route, m) ==
    IF \E i \in DOMAIN rm : rm[i].route = route
    THEN [i \in DOMAIN rm |-> IF rm[i].route = route
                               THEN [route |-> route, module |-> m] ELSE rm[i]]
    ELSE Append(rm, [route |-> route, module |-> m])

RECURSIVE RouteMapPutAll(_, _, _)
\* lines 42-45: for route in routes: self.route_map[route] = module
RouteMapPutAll(rm, rs, m) ==
    IF rs = <<>> THEN rm
    ELSE RouteMapPutAll(RouteMapPut(rm, Head(rs), m), Tail(rs), m)

\* for a mutant: one scan in registration order, exact or prefix, as the
\* modules' own handle_request loops do
FindModuleForPathOneScan(rm, path) ==
    LET hits == {i \in DOMAIN rm :
                    \/ rm[i].route = path
                    \/ EndsWithSlash(rm[i].route) /\ StartsWith(path, rm[i].route)}
    IN IF hits = {} THEN NoModule
       ELSE rm[CHOOSE i \in hits : \A j \in hits : i <= j].module

\* find_module_for_path, lines 54-65
FindModuleForPath(rm, path) ==
    LET exact == {i \in DOMAIN rm : rm[i].route = path}
        prefix == {i \in DOMAIN rm :
                      EndsWithSlash(rm[i].route) /\ StartsWith(path, rm[i].route)}
    IN IF exact # {} THEN rm[CHOOSE i \in exact : TRUE].module
       ELSE IF prefix # {}
            THEN rm[CHOOSE i \in prefix : \A j \in prefix : i <= j].module
            ELSE NoModule

\* the body of a response that carries no module information
NoInfo == [name |-> NoModule, state |-> None]

NoResp ==
    [method |-> None, path |-> <<>>, static |-> FALSE, resolved |-> NoModule,
     status |-> 0, listed |-> <<>>, info |-> NoInfo]

InitRegistry ==
    /\ routes \in RouteAssignments
    /\ modules = <<>>
    /\ route_map = <<>>
    /\ mstate = [m \in Modules |-> "unloaded"]
    /\ serving = FALSE
    /\ reg_failed = FALSE
    /\ reg_result = [m \in Modules |-> "none"]
    /\ resp = NoResp

IdleRegistry ==
    /\ routes = [m \in Modules |-> << <<"/", "a", "/">> >>]
    /\ modules = <<>>
    /\ route_map = <<>>
    /\ mstate = [m \in Modules |-> "unloaded"]
    /\ serving = FALSE
    /\ reg_failed = FALSE
    /\ reg_result = [m \in Modules |-> "none"]
    /\ resp = NoResp

InSeq(x, sq) == \E i \in DOMAIN sq : sq[i] = x

\* self.modules[module.name] = module
ModulesPut(ms, m) == IF InSeq(m, ms) THEN ms ELSE Append(ms, m)

\* for a mutant: the first route is recorded before the exception
RouteMapFirstRecorded(rm, rs, m) == RouteMapPut(rm, Head(rs), m)

\* lines 41 and 50-52: get_routes() raises before the loop over the routes
\* has recorded any; the except clause returns False
RouteMapAfterRaise(rm, rs, m) == rm

\* for a mutant: a state that is none of the four
LifecycleStateBusy(op) == "busy"

\* BaseModule.state after initialize (line 95), start (106), stop (114)
\* and unload (121)
LifecycleState(op) ==
    CASE op = "initialize" -> "initialized"
      [] op = "start" -> "started"
      [] op = "stop" -> "stopped"
      [] OTHER -> "unloaded"

\* register_module, lines 32-52. outcome: initialize() returned False; or
\* get_routes() raised; or the module and all its routes were recorded
RegisterModule(m, outcome) ==
    /\ ~serving
    /\ ~InSeq(m, modules)
    /\ mstate[m] = "unloaded"
    /\ CASE outcome = "init_failed" ->
                /\ reg_failed' = TRUE
                /\ reg_result' = [reg_result EXCEPT ![m] = "False"]
                /\ UNCHANGED <<modules, route_map, mstate>>
         [] outcome = "raised" ->
                /\ mstate' = [mstate EXCEPT ![m] = LifecycleState("initialize")]
                /\ modules' = ModulesPut(modules, m)
                /\ reg_failed' = TRUE
                /\ reg_result' = [reg_result EXCEPT ![m] = "False"]
                /\ route_map' = RouteMapAfterRaise(route_map, routes[m], m)
         [] OTHER ->
                /\ mstate' = [mstate EXCEPT ![m] = LifecycleState("initialize")]
                /\ modules' = ModulesPut(modules, m)
                /\ route_map' = RouteMapPutAll(route_map, routes[m], m)
                /\ reg_result' = [reg_result EXCEPT ![m] = "True"]
                /\ UNCHANGED reg_failed
    /\ UNCHANGED <<routes, serving, resp>>

\* BaseModule.start (lines 102-110, which leaves the state alone when the
\* module is not enabled), stop (112-117) and unload (119-124)
Lifecycle(m, op, enabled) ==
    /\ op \in {"start", "stop", "unload"}
    /\ mstate' = [mstate EXCEPT ![m] =
                     IF op = "start" /\ ~enabled THEN @ ELSE LifecycleState(op)]
    /\ UNCHANGED <<routes, modules, route_map, serving, reg_failed, reg_result, resp>>

\* run_server, lines 331-365: returns when a registration failed, else
\* serves
StartServer ==
    /\ ~serving
    /\ ~reg_failed
    /\ serving' = TRUE
    /\ UNCHANGED <<routes, modules, route_map, mstate, reg_failed, reg_result, resp>>

\* serve_static_file: do_GET's branch for '/', which resolves no route
IsStaticPath(method, path) == method = "GET" /\ path = <<"/">>

\* do_GET, lines 106-164, and do_POST, lines 166-198. handled: the status
\* the client sees once a handler ran: the code of the module's response (or
\* of serve_static_file), or 500 when handle_request raised
Dispatch(method, path, handled) ==
    /\ serving
    /\ resp = NoResp
    /\ IF IsStaticPath(method, path)
       THEN resp' = [method |-> method, path |-> path, static |-> TRUE,
                     resolved |-> NoModule,
                     status |-> handled, listed |-> <<>>, info |-> NoInfo]
       ELSE LET module == FindModuleForPath(route_map, path)
            IN resp' = [method |-> method, path |-> path, static |-> FALSE,
                        resolved |-> module,
                        status |-> IF module = NoModule THEN 404 ELSE handled,
                        listed |-> <<>>, info |-> NoInfo]
    /\ UNCHANGED <<routes, modules, route_map, mstate, serving, reg_failed, reg_result>>

\* the paths /api/modules and /api/modules/{name}
ApiModules == <<"/", "api", "/", "modules">>

ApiModule(m) == ApiModules \o <<"/", ToString(m)>>

\* BaseModule.get_module_info, lines 126-140: the name and the state, among
\* other fields
ModuleInfo(m) == [name |-> m, state |-> mstate[m]]

\* do_GET, lines 137-143: GET /api/modules answers with the names of
\* get_all_modules_info(), the keys of self.modules
GetModules ==
    /\ serving
    /\ resp = NoResp
    /\ resp' = [method |-> "GET", path |-> ApiModules, static |-> FALSE,
                resolved |-> NoModule, status |-> 200, listed |-> modules,
                info |-> NoInfo]
    /\ UNCHANGED <<routes, modules, route_map, mstate, serving, reg_failed, reg_result>>

\* do_GET for GET /api/modules/{name}: the path is none of the branches of
\* lines 115-143, so lines 145-156 look it up in the route table like any
\* other path
GetModule(m, handled) == Dispatch("GET", ApiModule(m), handled)

\* socketserver.TCPServer (line 356) finishes a request before it accepts
\* the next
FinishRequest ==
    /\ resp # NoResp
    /\ resp' = NoResp
    /\ UNCHANGED <<routes, modules, route_map, mstate, serving, reg_failed, reg_result>>

RegisterStep ==
    \E m \in Modules, outcome \in {"ok", "init_failed", "raised"} :
        RegisterModule(m, outcome) /\ UNCHANGED <<uvars, mvars, pvars, tvars, gvars, svars, cvars, ivars>>

StartStep == StartServer /\ UNCHANGED <<uvars, mvars, pvars, tvars, gvars, svars, cvars, ivars>>

DispatchStep ==
    \E method \in {"GET", "POST"}, path \in Paths, handled \in {200, 404, 500} :
        Dispatch(method, path, handled) /\ UNCHANGED <<uvars, mvars, pvars, tvars, gvars, svars, cvars, ivars>>

FinishStep == FinishRequest /\ UNCHANGED <<uvars, mvars, pvars, tvars, gvars, svars, cvars, ivars>>

LifecycleStep ==
    \E m \in Modules, op \in {"start", "stop", "unload"}, enabled \in BOOLEAN :
        Lifecycle(m, op, enabled) /\ UNCHANGED <<uvars, mvars, pvars, tvars, gvars, svars, cvars, ivars>>

GetModulesStep == GetModules /\ UNCHANGED <<uvars, mvars, pvars, tvars, gvars, svars, cvars, ivars>>

GetModuleStep ==
    \E m \in Modules, handled \in {200, 500} :
        GetModule(m, handled) /\ UNCHANGED <<uvars, mvars, pvars, tvars, gvars, svars, cvars, ivars>>

\* requests for the lifecycle specification: a path under the route of its
\* modules, and a path under no route
ProbePaths == { <<"/", "a", "/", "b">>, <<"/", "b">> }

ProbeStep ==
    \E method \in {"GET", "POST"}, path \in ProbePaths, handled \in {200, 500} :
        Dispatch(method, path, handled) /\ UNCHANGED <<uvars, mvars, pvars, tvars, gvars, svars, cvars, ivars>>

\* C30: for every module name that GET /api/modules lists, GET
\* /api/modules/{name} is answered 200 with a body whose name field is that
\* name and which has a state field.
C30_ModuleDetail ==
    /\ (resp.path = ApiModules) => (resp.status = 200 /\ resp.listed = modules)
    /\ \A m \in Modules :
          (resp.method = "GET" /\ resp.path = ApiModule(m) /\ InSeq(m, modules)) =>
              (resp.status = 200 /\ resp.info = ModuleInfo(m))

\* C18: if register_module returns failure (initialization fails, or a step
\* of registration raises), the route table holds no route entry of that
\* module: route_map is exactly what it was before the call.
C18_FailedRegistrationLeavesNoRoutes ==
    /\ [](\A m \in Modules :
            reg_result[m] = "False" =>
                \A i \in DOMAIN route_map : route_map[i].module # m)
    /\ [][\A m \in Modules :
            (reg_result[m] # "False" /\ reg_result'[m] = "False") =>
                route_map' = route_map]_vars

\* a registration failed after initialize() had succeeded, while another
\* module's routes stand in the table
C18_Witness ==
    \E m \in Modules :
        /\ reg_result[m] = "False"
        /\ InSeq(m, modules)
        /\ route_map # <<>>

\* C19: handling a request leaves the route table, the module set and every
\* module's lifecycle state unchanged; a module's state is always one of
\* unloaded, initialized, started, stopped, and changes only through
\* initialize, start, stop and unload.
C19_DispatchIsReadOnly ==
    /\ [](\A m \in Modules :
            mstate[m] \in {"unloaded", "initialized", "started", "stopped"})
    /\ [][resp' # resp => UNCHANGED <<route_map, modules, mstate, routes>>]_vars

\* a request has been resolved to a module and handled while that module is
\* started and another state change is behind it
C19_Witness ==
    /\ resp # NoResp
    /\ resp.resolved # NoModule
    /\ mstate[resp.resolved] = "started"
    /\ \E m \in Modules : mstate[m] = "stopped"

\* what get_routes() may be when prefix routes nest: "/" and "/a/" both
\* match every path under /a/
PrefixListSeq ==
    << << <<"/", "a", "/">> >>,
       << <<"/">>, <<"/", "a", "/">> >>,
       << <<"/", "a", "/">>, <<"/">> >> >>

\* one assignment of these lists to the modules per renaming of the modules
PrefixAssignments ==
    { [m \in Modules |-> PrefixListSeq[idx[m]]] :
        idx \in {f \in [Modules -> DOMAIN PrefixListSeq] :
                    \A m1, m2 \in Modules : m1 <= m2 => f[m1] <= f[m2]} }

InitPrefixRegistry ==
    /\ routes \in PrefixAssignments
    /\ modules = <<>>
    /\ route_map = <<>>
    /\ mstate = [m \in Modules |-> "unloaded"]
    /\ serving = FALSE
    /\ reg_failed = FALSE
    /\ reg_result = [m \in Modules |-> "none"]
    /\ resp = NoResp

RECURSIVE Registrations(_)
\* the (route, module) pairs in the order in which the register_module
\* calls that returned True recorded them (lines 38-45)
Registrations(ms) ==
    IF ms = <<>> THEN <<>>
    ELSE LET m == Head(ms)
             own == IF reg_result[m] = "True"
                    THEN [i \in DOMAIN routes[m] |->
                             [route |-> routes[m][i], module |-> m]]
                    ELSE <<>>
         IN own \o Registrations(Tail(ms))

\* the registrations whose route is a prefix route that matches the path
PrefixMatches(regs, path) ==
    {i \in DOMAIN regs :
        EndsWithSlash(regs[i].route) /\ StartsWith(path, regs[i].route)}

\* C31: when a path matches no exact route and several prefix routes,
\* find_module_for_path returns the module of the matching prefix route that
\* was registered first, for every order of register_module calls, also when
\* a later module registers a pattern that an earlier module registered.
C31_FirstRegisteredPrefixWins ==
    LET regs == Registrations(modules)
        hits == PrefixMatches(regs, resp.path)
    IN (/\ resp # NoResp /\ ~resp.static
        /\ \A i \in DOMAIN route_map : route_map[i].route # resp.path
        /\ Cardinality({regs[i].route : i \in hits}) >= 2) =>
           resp.resolved = regs[CHOOSE i \in hits : \A j \in hits : i <= j].module

\* C5: a request path equal to a registered route resolves to that route's
\* module (also when a prefix route of another module matches it), and a path
\* that matches no exact and no prefix route resolves to no module and is
\* answered 404.
C5_ExactWinsAndUnmatchedIs404 ==
    (resp # NoResp /\ ~resp.static) =>
        LET exact == {i \in DOMAIN route_map : route_map[i].route = resp.path}
            prefix == {i \in DOMAIN route_map :
                          /\ EndsWithSlash(route_map[i].route)
                          /\ StartsWith(resp.path, route_map[i].route)}
        IN /\ \A i \in exact : resp.resolved = route_map[i].module
           /\ (exact = {} /\ prefix = {}) =>
                  (resp.resolved = NoModule /\ resp.status = 404)

\* C5's case: the path is an exact route of one module and is matched by a
\* prefix route that another module registered earlier
C5_Witness ==
    /\ resp # NoResp /\ ~resp.static
    /\ \E i, j \in DOMAIN route_map :
          /\ route_map[i].route = resp.path
          /\ j < i
          /\ route_map[j].module # route_map[i].module
          /\ EndsWithSlash(route_map[j].route)
          /\ StartsWith(resp.path, route_map[j].route)
          /\ resp.resolved = route_map[i].module

-----------------------------------------------------------------------------
(* parse_multipart_form_data (text_to_video_module.py, ref_i2v_module.py)  *)

\* A body is a sequence of tokens. A token is one byte, or the run of bytes
\* b'--' + boundary, or one Content-Disposition header line with its name and
\* filename parameters (filename None when the line has none).
Byte(v) == [k |-> v, name |-> None, filename |-> None]

Delim(b) == [k |-> "delim", name |-> b, filename |-> None]

Disposition(n, f) == [k |-> "disposition", name |-> n, filename |-> f]

X == Byte("x")

CR == Byte("CR")

LF == Byte("LF")

DASH == Byte("-")

FieldNames == {"f", "g"}

\* the contents a part may have: empty, plain, and with CR / LF bytes inside
\* and at the end
PartContents == {<<>>, <<X>>, <<X, LF>>, <<LF, X>>, <<X, CR, LF, X>>}

PartValues ==
    [name : FieldNames, filename : {None, "a.png"}, content : PartContents]

RECURSIVE SeqsUpTo(_, _)
SeqsUpTo(S, n) ==
    IF n = 0 THEN {<<>>}
    ELSE LET shorter == SeqsUpTo(S, n - 1)
         IN shorter \cup {Append(sq, x) : sq \in {t \in shorter : Len(t) = n - 1}, x \in S}

Boundary == "B"

\* a boundary that is not the one the Content-Type declares
OtherBoundary == "Z"

NoBoundary == "NoBoundary"

\* what may stand right after the boundary token in the header: nothing, a
\* ';' that begins a further parameter, or whitespace
NoExtra == "NoExtra"

Extras == {";", " "}

\* Content-Type headers: multipart/form-data with and without a boundary
\* parameter, and another media type with and without one; and
\* multipart/form-data whose boundary token is followed by something
ContentTypes ==
    { [multipart |-> TRUE, boundary |-> Boundary, after |-> NoExtra],
      [multipart |-> TRUE, boundary |-> NoBoundary, after |-> NoExtra],
      [multipart |-> FALSE, boundary |-> Boundary, after |-> NoExtra],
      [multipart |-> FALSE, boundary |-> NoBoundary, after |-> NoExtra] }
    \cup {[multipart |-> TRUE, boundary |-> Boundary, after |-> e] : e \in Extras}

RECURSIVE EncodeParts(_, _)
\* the body a client sends for the parts (RFC 7578): per part the delimiter,
\* CRLF, the header, CRLF CRLF, the content, CRLF; then the closing delimiter
EncodeParts(ps, b) ==
    IF ps = <<>> THEN <<Delim(b), DASH, DASH, CR, LF>>
    ELSE <<Delim(b), CR, LF, Disposition(Head(ps).name, Head(ps).filename),
           CR, LF, CR, LF>> \o Head(ps).content \o <<CR, LF>>
         \o EncodeParts(Tail(ps), b)

\* the bodies a client may send: the form under the declared boundary, the
\* form under another boundary, the same after a CRLF preamble, an empty
\* body, and no body at all (handlers then pass None)
BodyKinds == {"form", "other_boundary", "preamble", "empty", "absent"}

BodyOf(kind, ps) ==
    CASE kind = "form" -> EncodeParts(ps, Boundary)
      [] kind = "other_boundary" -> EncodeParts(ps, OtherBoundary)
      [] kind = "preamble" -> <<CR, LF>> \o EncodeParts(ps, OtherBoundary)
      [] OTHER -> <<>>

RECURSIVE SplitOn(_, _)
\* bytes.split(sep): the pieces between the occurrences of sep
SplitOn(bs, sep) ==
    LET hits == {i \in DOMAIN bs : bs[i] = sep}
    IN IF hits = {} THEN <<bs>>
       ELSE LET i == CHOOSE h \in hits : \A g \in hits : h <= g
            IN <<SubSeq(bs, 1, i - 1)>> \o SplitOn(SubSeq(bs, i + 1, Len(bs)), sep)

\* the index where the first b'\r\n\r\n' of a part starts, 0 when it has none
FirstBlankLine(part) ==
    LET hits == {i \in 1..(Len(part) - 3) :
                    SubSeq(part, i, i + 3) = <<CR, LF, CR, LF>>}
    IN IF hits = {} THEN 0 ELSE CHOOSE h \in hits : \A g \in hits : h <= g

RECURSIVE RStripCRLF(_)
\* content.rstrip(b'\r\n'): drops every trailing CR and LF byte
RStripCRLF(c) ==
    IF c # <<>> /\ c[Len(c)] \in {CR, LF} THEN RStripCRLF(SubSeq(c, 1, Len(c) - 1))
    ELSE c

\* re.search(r'name="([^"]+)"', headers_text): the first header line's name
NameMatch(hs) ==
    LET hits == {i \in DOMAIN hs : hs[i].k = "disposition"}
    IN IF hits = {} THEN None
       ELSE hs[CHOOSE h \in hits : \A g \in hits : h <= g].name

\* re.search(r'filename="([^"]+)"', headers_text)
FilenameMatch(hs) ==
    LET hits == {i \in DOMAIN hs : hs[i].k = "disposition" /\ hs[i].filename # None}
    IN IF hits = {} THEN None
       ELSE hs[CHOOSE h \in hits : \A g \in hits : h <= g].filename

\* re.search(r'boundary=([^;\s]+)', content_type): the token, which ends at
\* the first ';' or whitespace
BoundaryMatch(ct) == ct.boundary

\* the boundary token with the whitespace that follows it
BoundaryAndSpace == "B "

\* re.search(r'boundary=([^;]+)', content_type).group(1).strip('"'): all up
\* to the first ';', whitespace included
BoundaryMatchToSemicolon(ct) ==
    IF ct.boundary # NoBoundary /\ ct.after = " " THEN BoundaryAndSpace
    ELSE ct.boundary

\* form_data[field_name].append(file_info), after creating the list
FormAppend(fd, n, v) ==
    MapPut(fd, n, IF n \in DOMAIN fd THEN Append(fd[n], v) ELSE <<v>>)

\* form_data[field_name] = [...]
FormAssign(fd, n, v) == MapPut(fd, n, <<v>>)

\* bytes.startswith(b'--'): two dash bytes, or a delimiter, which begins
\* with them
StartsWithDashes(part) ==
    /\ Len(part) >= 1
    /\ \/ part[1].k = "delim"
       \/ Len(part) >= 2 /\ part[1] = DASH /\ part[2] = DASH

\* not part.strip(): nothing but whitespace bytes
IsBlank(part) == \A i \in DOMAIN part : part[i] \in {CR, LF}

RECURSIVE TextToVideoParts(_, _)
\* text_to_video_module.py lines 537-560: the loop over the parts
TextToVideoParts(parts, fd) ==
    IF parts = <<>> THEN fd
    ELSE LET part == Head(parts)
             at == FirstBlankLine(part)
             headers_section == SubSeq(part, 1, at - 1)
             content == RStripCRLF(SubSeq(part, at + 4, Len(part)))
             field_name == NameMatch(headers_section)
         IN IF part = <<>> \/ part = <<CR, LF>> \/ StartsWithDashes(part)
            THEN TextToVideoParts(Tail(parts), fd)
            ELSE IF at = 0 \/ field_name = None
            THEN TextToVideoParts(Tail(parts), fd)
            ELSE TextToVideoParts(Tail(parts),
                     FormAppend(fd, field_name,
                         [content |-> content,
                          filename |-> FilenameMatch(headers_section)]))

\* TextToVideoModule.parse_multipart_form_data, lines 521-566
TextToVideoParse(ct, bs) ==
    IF BoundaryMatch(ct) = NoBoundary THEN EmptyMap
    ELSE TextToVideoParts(SplitOn(bs, Delim(BoundaryMatch(ct))), EmptyMap)

RECURSIVE RefI2VParts(_, _)
\* ref_i2v_module.py lines 210-224: the loop over parts[1:-1]. A part without
\* a filename is kept as text, here a value with filename None
RefI2VParts(parts, fd) ==
    IF parts = <<>> THEN fd
    ELSE LET part == Head(parts)
             at == FirstBlankLine(part)
             headers_section == SubSeq(part, 1, at - 1)
             content == RStripCRLF(SubSeq(part, at + 4, Len(part)))
             field_name == NameMatch(headers_section)
         IN IF IsBlank(part) \/ at = 0 \/ field_name = None
            THEN RefI2VParts(Tail(parts), fd)
            ELSE RefI2VParts(Tail(parts),
                     FormAssign(fd, field_name,
                         [content |-> content,
                          filename |-> FilenameMatch(headers_section)]))

\* RefI2VModule.parse_multipart_form_data, lines 199-228
RefI2VParse(ct, bs) ==
    IF ~ct.multipart \/ BoundaryMatchToSemicolon(ct) = NoBoundary THEN EmptyMap
    ELSE LET parts == SplitOn(bs, Delim(BoundaryMatchToSemicolon(ct)))
         IN RefI2VParts(SubSeq(parts, 2, Len(parts) - 1), EmptyMap)

RECURSIVE V2TParts(_, _)
\* v2t_module.py lines 181-199: the loop over parts[1:-1]; a file replaces
\* the list of its name, a text value is appended to it
V2TParts(parts, fd) ==
    IF parts = <<>> THEN fd
    ELSE LET part == Head(parts)
             at == FirstBlankLine(part)
             headers_section == SubSeq(part, 1, at - 1)
             content == RStripCRLF(SubSeq(part, at + 4, Len(part)))
             field_name == NameMatch(headers_section)
             filename == FilenameMatch(headers_section)
             value == [content |-> content, filename |-> filename]
         IN IF IsBlank(part) \/ at = 0 \/ field_name = None
            THEN V2TParts(Tail(parts), fd)
            ELSE IF filename # None
            THEN V2TParts(Tail(parts), FormAssign(fd, field_name, value))
            ELSE V2TParts(Tail(parts), FormAppend(fd, field_name, value))

\* v2t_module.py lines 165-168: the boundary read off the body's first line,
\* first_line[2:]. When that line is the closing delimiter the separator
\* b'--' + boundary + b'--' occurs once, at the start, and parts[1:-1] is
\* empty: as with no boundary at all
SniffBoundary(bs) ==
    IF Len(bs) >= 3 /\ bs[1].k = "delim" /\ bs[2] = CR /\ bs[3] = LF
    THEN bs[1].name ELSE NoBoundary

\* V2TModule.parse_multipart_form_data, lines 162-202
V2TParse(ct, bs) ==
    LET boundary == IF ~ct.multipart
                    THEN IF StartsWithDashes(bs) THEN SniffBoundary(bs) ELSE NoBoundary
                    ELSE BoundaryMatchToSemicolon(ct)
    IN IF boundary = NoBoundary THEN EmptyMap
       ELSE LET parts == SplitOn(bs, Delim(boundary))
            IN V2TParts(SubSeq(parts, 2, Len(parts) - 1), EmptyMap)

\* the decoders given None for a body: body.split raises AttributeError
\* inside the try (or the decoder has returned {} before it), and the
\* except clause returns {}
ParseAbsent(d, ct) == EmptyMap

\* parse_multipart_form_data of the module d
Parse(d, ct, bs) ==
    CASE d = "text_to_video" -> TextToVideoParse(ct, bs)
      [] d = "ref_i2v" -> RefI2VParse(ct, bs)
      [] OTHER -> V2TParse(ct, bs)

Decoders == {"text_to_video", "ref_i2v", "v2t"}

InitMultipart ==
    /\ fields \in SeqsUpTo(PartValues, MaxParts)
    /\ content_type \in ContentTypes
    /\ body = <<>>
    /\ sent = "no"
    /\ decoder = None
    /\ form_data = EmptyMap

IdleMultipart ==
    /\ fields = <<>>
    /\ content_type = [multipart |-> TRUE, boundary |-> Boundary, after |-> NoExtra]
    /\ body = <<>>
    /\ sent = "no"
    /\ decoder = None
    /\ form_data = EmptyMap

\* the client sends the request
SendForm(kind) ==
    /\ sent = "no"
    /\ sent' = kind
    /\ body' = BodyOf(kind, fields)
    /\ UNCHANGED <<fields, content_type, decoder, form_data>>

\* a module's handler decodes the body it was given
ParseMultipartFormData(d) ==
    /\ sent # "no"
    /\ decoder = None
    /\ decoder' = d
    /\ form_data' = IF sent = "absent" THEN ParseAbsent(d, content_type)
                    ELSE Parse(d, content_type, body)
    /\ UNCHANGED <<fields, content_type, body, sent>>

SendStep == \E kind \in BodyKinds : SendForm(kind) /\ UNCHANGED <<uvars, rvars, pvars, tvars, gvars, svars, cvars, ivars>>

ParseStep == \E d \in Decoders : ParseMultipartFormData(d) /\ UNCHANGED <<uvars, rvars, pvars, tvars, gvars, svars, cvars, ivars>>

\* the parts of the form that carry the name n, in arrival order
PartsNamed(n) ==
    SelectSeq([i \in DOMAIN fields |->
                  [content |-> fields[i].content, filename |-> fields[i].filename,
                   name |-> fields[i].name]],
              LAMBDA p : p.name = n)

\* the request is a well-formed multipart request and has been decoded
DecodedWellFormed ==
    /\ decoder # None
    /\ sent = "form"
    /\ content_type = [multipart |-> TRUE, boundary |-> Boundary, after |-> NoExtra]

\* C6: after a well-formed multipart body is decoded, every field name of the
\* form maps to the list of its parts in arrival order, each with the
\* original content bytes and filename, and no other name is present.
C6_RoundTrip ==
    DecodedWellFormed =>
        /\ DOMAIN form_data = {fields[i].name : i \in DOMAIN fields}
        /\ \A n \in DOMAIN form_data :
              /\ Len(form_data[n]) = Len(PartsNamed(n))
              /\ \A i \in DOMAIN form_data[n] :
                    /\ form_data[n][i].content = PartsNamed(n)[i].content
                    /\ form_data[n][i].filename = PartsNamed(n)[i].filename

-----------------------------------------------------------------------------
(* The poll loops: query_status (tests/i2v_and_t2v_module/run_test.py) and *)
(* query_task_status (tests/ref_gen_video/test_ref_gen_video.py)           *)

PollImpls == {"query_status", "query_task_status"}

SuccessTokens == {"succeeded", "completed", "success"}

FailureTokens == {"failed", "error"}

\* status values a response may carry: the terminal ones, two that are not,
\* and Missing for a body without the field
Missing == "Missing"

StatusTokens == SuccessTokens \cup FailureTokens \cup {"running", "queued", Missing}

\* What one requests.get can give: an exception, a non-200 answer, a 200 whose
\* body is not JSON, a 200 whose JSON is not an object, or a 200 with a JSON
\* object. Of an object: its 'status'; alt, the first of 'task_status' and
\* 'state' that is set; and whether 'error' is absent, an object or anything
\* else (a string, null).
Resp(kind, status, alt, err) == [kind |-> kind, status |-> status, alt |-> alt, err |-> err]

Responses ==
    {Resp(k, Missing, Missing, "absent") :
        k \in {"exception", "http_error", "not_json", "not_object"}}
    \cup {Resp("object", st, alt, err) :
            st \in StatusTokens, alt \in {Missing, "succeeded", "failed"},
            err \in {"absent", "dict", "other"}}

NoLookup == Resp("none", Missing, Missing, "absent")

\* the status a loop reads from a JSON object: query_status line 41,
\* query_task_status line 148
StatusOf(impl, r) ==
    IF impl = "query_status"
    THEN IF r.status # Missing THEN r.status ELSE r.alt
    ELSE IF r.status # Missing THEN r.status ELSE "unknown"

\* the values the loops return; a field the value lacks is None
Result(ok, status, error, data) ==
    [success |-> ok, status |-> status, error |-> error, has_data |-> data]

NoResult == Result(FALSE, None, None, FALSE)

SuccessResult(impl, st) ==
    IF impl = "query_status" THEN Result(TRUE, None, None, TRUE)
    ELSE Result(TRUE, st, None, TRUE)

FailureResult(impl, st) ==
    IF impl = "query_status" THEN Result(FALSE, None, None, TRUE)
    ELSE Result(FALSE, st, "upstream", TRUE)

TimeoutResult(impl) ==
    IF impl = "query_status" THEN Result(FALSE, None, None, FALSE)
    ELSE Result(FALSE, None, "timeout", FALSE)

\* query_task_status lines 225-246: the last attempt's own error
GaveUpResult(error) == Result(FALSE, None, error, FALSE)

\* for a mutant: a loop that runs once more than asked
HasNextInclusive(i, n) == i <= n

\* for _ in range(attempts): another iteration after i of them
HasNext(i, n) == i < n

\* result.get('error', {}).get('message', ...), line 208: raises
\* AttributeError when 'error' is present and not an object
ErrorMessageReadable(r) == r.err \in {"absent", "dict"}

\* What one iteration of a loop does with a response: "success", "failure",
\* "continue" (sleep and go on), "raise" (the exception leaves the function)
\* or "retry" (query_task_status's except branches, lines 220-246: go on
\* unless this is the last attempt)
Classify(impl, r) ==
    IF impl = "query_status"
    THEN CASE r.kind = "exception" -> "raise"
           [] r.kind = "http_error" -> "continue"
           [] r.kind = "not_json" -> "continue"
           [] r.kind = "not_object" -> "raise"
           [] OTHER ->
                IF StatusOf(impl, r) \in SuccessTokens THEN "success"
                ELSE IF StatusOf(impl, r) \in FailureTokens THEN "failure"
                ELSE "continue"
    ELSE CASE r.kind \in {"exception", "http_error", "not_json", "not_object"} -> "retry"
           [] OTHER ->
                IF StatusOf(impl, r) \in SuccessTokens THEN "success"
                ELSE IF StatusOf(impl, r) \in FailureTokens
                     THEN IF ErrorMessageReadable(r) THEN "failure" ELSE "retry"
                     ELSE "continue"

\* the message of the last attempt's error
RetryError(r) == IF r.kind = "http_error" THEN "http" ELSE "query_error"

InitPoll ==
    /\ poll_impl \in PollImpls
    /\ max_attempts \in 0..MaxAttempts
    /\ lookups = 0
    /\ poll_pc = "idle"
    /\ poll_result = NoResult
    /\ last_resp = NoLookup
    /\ only_running = TRUE
    /\ terminal_at = 0

IdlePoll ==
    /\ poll_impl = "query_status"
    /\ max_attempts = 0
    /\ lookups = 0
    /\ poll_pc = "idle"
    /\ poll_result = NoResult
    /\ last_resp = NoLookup
    /\ only_running = TRUE
    /\ terminal_at = 0

\* the call: enters the loop, or with no attempts allowed falls through to
\* the return after it
StartPoll ==
    /\ poll_pc = "idle"
    /\ IF HasNext(0, max_attempts)
       THEN poll_pc' = "loop" /\ UNCHANGED poll_result
       ELSE poll_pc' = "timeout" /\ poll_result' = TimeoutResult(poll_impl)
    /\ UNCHANGED <<poll_impl, max_attempts, lookups, last_resp, only_running,
                   terminal_at>>

\* one iteration: the lookup, what the loop makes of it, and when the
\* iterations are used up the return after the loop
PollLookup(r) ==
    /\ poll_pc = "loop"
    /\ HasNext(lookups, max_attempts)
    /\ lookups' = lookups + 1
    /\ last_resp' = r
    /\ only_running' =
          (only_running /\ r.kind = "object"
             /\ StatusOf(poll_impl, r) \notin SuccessTokens \cup FailureTokens)
    /\ terminal_at' =
          IF terminal_at = 0 /\ r.kind = "object"
             /\ StatusOf(poll_impl, r) \in SuccessTokens \cup FailureTokens
          THEN lookups + 1 ELSE terminal_at
    /\ LET what == Classify(poll_impl, r)
           st == StatusOf(poll_impl, r)
           more == HasNext(lookups + 1, max_attempts)
       IN CASE what = "success" ->
                  poll_pc' = "success" /\ poll_result' = SuccessResult(poll_impl, st)
            [] what = "failure" ->
                  poll_pc' = "failure" /\ poll_result' = FailureResult(poll_impl, st)
            [] what = "raise" ->
                  poll_pc' = "raised" /\ UNCHANGED poll_result
            [] what = "retry" /\ ~more ->
                  poll_pc' = "gave_up" /\ poll_result' = GaveUpResult(RetryError(r))
            [] OTHER ->
                  IF more THEN UNCHANGED <<poll_pc, poll_result>>
                  ELSE poll_pc' = "timeout" /\ poll_result' = TimeoutResult(poll_impl)
    /\ UNCHANGED <<poll_impl, max_attempts>>

StartPollStep == StartPoll /\ UNCHANGED <<uvars, rvars, mvars, tvars, gvars, svars, cvars, ivars>>

LookupStep == \E r \in Responses : PollLookup(r) /\ UNCHANGED <<uvars, rvars, mvars, tvars, gvars, svars, cvars, ivars>>

\* C7: a poll loop never makes more than max_attempts lookups; when every
\* lookup got a non-terminal status it has made exactly max_attempts lookups
\* when it ends, it ends by the timeout return, and the value of that return
\* differs from every value the upstream-failure return builds.
C7_BoundedPoll ==
    /\ lookups <= max_attempts
    /\ (only_running /\ poll_pc # "idle" /\ poll_pc # "loop") =>
          (poll_pc = "timeout" /\ lookups = max_attempts)
    /\ (only_running /\ poll_pc = "loop") => lookups < max_attempts
    /\ poll_pc = "timeout" =>
          /\ poll_result = TimeoutResult(poll_impl)
          /\ \A st \in FailureTokens : poll_result # FailureResult(poll_impl, st)

\* C7's case: at least two lookups, all of them non-terminal, and the loop
\* has returned
C7_Witness ==
    /\ only_running
    /\ max_attempts >= 2
    /\ lookups = max_attempts
    /\ poll_pc = "timeout"

\* C8: a 200 response whose status is succeeded, completed or success ends
\* the poll with success; failed or error ends it with the upstream failure;
\* any other status, or none, does not end it with either: the loop goes on
\* while it has attempts left.
C8_Classification ==
    last_resp.kind = "object" =>
        LET st == StatusOf(poll_impl, last_resp)
        IN /\ st \in SuccessTokens => poll_pc = "success"
           /\ st \in FailureTokens => poll_pc = "failure"
           /\ st \notin SuccessTokens \cup FailureTokens =>
                 poll_pc = (IF lookups < max_attempts THEN "loop" ELSE "timeout")

\* C9: once a lookup got a terminal status, that lookup is the last one and
\* the loop has returned the matching outcome.
C9_StopsAtTerminal ==
    terminal_at # 0 =>
        /\ lookups = terminal_at
        /\ poll_pc \in {"success", "failure"}
        /\ (poll_pc = "success") = (StatusOf(poll_impl, last_resp) \in SuccessTokens)

-----------------------------------------------------------------------------
(* SeedreamModule._call_api_with_retry (seedream_module.py)                *)

\* An error message is the set of the indicator keywords its lower-cased
\* text contains; {} is a message with none of them (a malformed request, an
\* authentication failure).
NetworkKeywords ==
    {"timeout", "timed out", "read timeout", "connection", "network",
     "httperror", "connectionerror", "connecttimeout"}

TimeoutKeywords == {"timeout", "timed out", "read timeout"}

\* a text that contains 'read timeout' or 'connecttimeout' contains
\* 'timeout', and one that contains 'connectionerror' contains 'connection'
ErrorMessages ==
    { {}, {"timeout"}, {"timed out"}, {"connection"}, {"network"}, {"httperror"},
      {"read timeout", "timeout"}, {"connectionerror", "connection"},
      {"connecttimeout", "timeout"} }

NoError == {"(no error)"}

\* lines 366-369
IsNetworkError(error_msg) == error_msg \cap NetworkKeywords # {}

\* lines 372-374
IsTimeout(error_msg) == error_msg \cap TimeoutKeywords # {}

\* for a mutant: no failure is retried
RetriesNever(error_msg, a, n) == FALSE

\* for a mutant: every failure is retried while attempts remain
RetriesAnyError(error_msg, a, n) == a < n

\* lines 378-387: continue, as opposed to leaving the loop
Retries(error_msg, a, n) == (IsTimeout(error_msg) \/ IsNetworkError(error_msg)) /\ a < n

InitRetry ==
    /\ max_retries \in 0..MaxRetries
    /\ attempt = 0
    /\ calls = 0
    /\ sleeps = 0
    /\ retry_pc = "loop"
    /\ retry_result = None
    /\ last_error = NoError
    /\ app_error_at = 0

IdleRetry ==
    /\ max_retries = 0
    /\ attempt = 0
    /\ calls = 0
    /\ sleeps = 0
    /\ retry_pc = "loop"
    /\ retry_result = None
    /\ last_error = NoError
    /\ app_error_at = 0

\* one iteration of the loop, lines 281-342, in which cv_process returns
CallSucceeds ==
    /\ retry_pc = "loop"
    /\ sleeps' = IF attempt > 0 THEN sleeps + 1 ELSE sleeps
    /\ calls' = calls + 1
    /\ retry_pc' = "returned"
    /\ retry_result' = "response"
    /\ UNCHANGED <<max_retries, attempt, last_error, app_error_at>>

\* one iteration in which cv_process raises, lines 281-305 and 344-387, with
\* the return after the loop (lines 389-403) when the loop is left
CallFails(error_msg) ==
    /\ retry_pc = "loop"
    /\ sleeps' = IF attempt > 0 THEN sleeps + 1 ELSE sleeps
    /\ calls' = calls + 1
    /\ last_error' = error_msg
    /\ app_error_at' =
          IF app_error_at = 0 /\ error_msg \cap NetworkKeywords = {}
          THEN calls + 1 ELSE app_error_at
    /\ IF Retries(error_msg, attempt, max_retries)
       THEN attempt' = attempt + 1 /\ UNCHANGED <<retry_pc, retry_result>>
       ELSE retry_pc' = "returned" /\ retry_result' = None /\ UNCHANGED attempt
    /\ UNCHANGED max_retries

CallSucceedsStep == CallSucceeds /\ UNCHANGED <<uvars, rvars, mvars, pvars, gvars, svars, cvars, ivars>>

CallFailsStep ==
    \E error_msg \in ErrorMessages :
        CallFails(error_msg) /\ UNCHANGED <<uvars, rvars, mvars, pvars, gvars, svars, cvars, ivars>>

\* C10: once an attempt has failed with an error that carries no network or
\* timeout indicator, the call has returned failure (None) and that attempt
\* was the last call to the upstream.
C10_AppErrorNotRetried ==
    app_error_at # 0 =>
        /\ retry_pc = "returned"
        /\ retry_result = None
        /\ calls = app_error_at
        /\ last_error \cap NetworkKeywords = {}

\* C10's case: a first attempt failed with a network error and was retried,
\* the second failed with an application error, and retries were still left
C10_Witness ==
    /\ app_error_at = 2
    /\ calls = 2
    /\ attempt < max_retries
    /\ retry_pc = "returned"

\* C11: a retry_delay sleep precedes every attempt but the first; while every
\* failure carries a network or timeout indicator the loop goes on, and when
\* it then returns failure the upstream has been called max_retries + 1
\* times; an attempt that completes returns its response at once, as the
\* last call.
C11_RetriesThenGivesUp ==
    /\ sleeps = (IF calls = 0 THEN 0 ELSE calls - 1)
    /\ calls <= max_retries + 1
    /\ (app_error_at = 0 /\ retry_pc = "loop") => calls = attempt
    /\ (app_error_at = 0 /\ retry_pc = "returned" /\ retry_result = None) =>
          (calls = max_retries + 1 /\ last_error \cap NetworkKeywords # {})
    /\ retry_result = "response" => (retry_pc = "returned" /\ calls = attempt + 1)

\* C11's case: at least two retries, every attempt failed with a network or
\* timeout error, and the call has returned failure
C11_Witness ==
    /\ max_retries >= 2
    /\ app_error_at = 0
    /\ retry_pc = "returned"
    /\ retry_result = None
    /\ calls = max_retries + 1
    /\ sleeps = max_retries

\* C20: the multipart decoder never raises: for a content-type without a
\* boundary token, an empty or absent body, or a body in which the declared
\* boundary does not occur, parse_multipart_form_data returns an empty mapping.
C20_StructuralProblemGivesEmptyMap ==
    (/\ decoder # None
     /\ \/ BoundaryMatch(content_type) = NoBoundary
        \/ sent \in {"empty", "absent"}
        \/ sent \in {"other_boundary", "preamble"}) =>
        form_data = EmptyMap

\* C32: boundary extraction stops at the first ';' or whitespace after
\* 'boundary=': for a content-type with further parameters or whitespace
\* after the boundary token, every module's decoder decodes the same fields
\* as for the header without those extras.
C32_ExtrasAfterBoundaryIgnored ==
    (/\ decoder # None
     /\ sent # "absent"
     /\ content_type.after \in Extras) =>
        form_data = Parse(decoder, [content_type EXCEPT !.after = NoExtra], body)

-----------------------------------------------------------------------------
(* Request handling: do_GET / do_POST (main_server.py) and the submission  *)
(* handlers of TextToVideoModule, RefI2VModule, V2TModule and              *)
(* SeedreamModule                                                          *)

\* the routes of the two modules that submit a task, and a path of no module
SubmitRoutes ==
    {"/text_to_video", "/image_to_video_advanced", "/generate_video",
     "/upload_and_create_task"}

\* the routes of V2TModule: they upload or call the upstream, but submit no task
OtherRoutes == {"/video_comprehension_gen_text", "/upload_video"}

\* the route of SeedreamModule: it uploads and calls the upstream with retries
ImageRoutes == {"/seedream_generate"}

\* the routes whose handler calls parse_multipart_form_data
MultipartRoutes ==
    {"/image_to_video_advanced", "/generate_video", "/upload_and_create_task",
     "/video_comprehension_gen_text", "/upload_video", "/seedream_generate"}

\* the routes that look a task up; a path is the route followed by the id
StatusRoutes == {"/task_status/", "/video_task_status/"}

UnknownRoute == "/nowhere"

\* the module that route_map gives for a route: get_routes of each module
ModuleOf(route) ==
    IF route \in {"/text_to_video", "/image_to_video_advanced",
                  "/video_task_status/"} THEN "text_to_video"
    ELSE IF route \in {"/generate_video", "/upload_and_create_task",
                       "/task_status/"}
         THEN "ref_i2v_module"
         ELSE IF route \in OtherRoutes THEN "v2t_module"
         ELSE IF route \in ImageRoutes THEN "seedream"
         ELSE None

\* file fields of a form, by position: reference_image_i for /generate_video,
\* image_file_i for /upload_and_create_task, first_frame and last_frame for
\* /image_to_video_advanced, video for /upload_video, the image and files
\* fields for /seedream_generate
Slots == 1..NumSlots

VideoTypes ==
    {"image_to_video_first_frame", "image_to_video_first_last_frame", "text_to_video"}

\* A request. body: "absent" (no Content-Length, do_POST passes None),
\* "bad_length" (a Content-Length that int() rejects), "garbled" (bytes the
\* route's parser cannot decode: not JSON, or no boundary that matches),
\* "wrong_type" (JSON that is not an object) or "ok". multipart: the Content-Type says multipart/form-data. prompt, api_key:
\* the body carries a non-empty one. config_api_key: the module's configuration
\* has one. files: per slot no file, a file within max_file_size ("ok") or a
\* file over it ("big"). On a status route, task_id: the path has
\* an id after the route, and api_key: the headers have an authorization key.
\* blocked: the client address is in the blocked-IP set. do_OPTIONS reads
\* nothing of an OPTIONS request.
Requests ==
    { r \in [route : SubmitRoutes \cup OtherRoutes \cup ImageRoutes
                      \cup StatusRoutes \cup {UnknownRoute},
             task_id : BOOLEAN,
             blocked : BOOLEAN,
             method : {"GET", "POST", "OPTIONS"},
             body : {"absent", "bad_length", "garbled", "wrong_type", "ok"},
             multipart : BOOLEAN,
             prompt : BOOLEAN, api_key : BOOLEAN, config_api_key : BOOLEAN,
             video_type : VideoTypes, files : [Slots -> {"none", "ok", "big"}]] :
        \* fields a route never reads keep one value
        /\ (r.route # "/image_to_video_advanced") =>
              r.video_type = "image_to_video_first_frame"
        /\ (r.route \in {"/text_to_video", "/video_comprehension_gen_text",
                         UnknownRoute}) =>
              (\A s \in Slots : r.files[s] = "none")
        /\ (r.route = UnknownRoute) =>
              (~r.multipart /\ ~r.prompt /\ ~r.api_key /\ ~r.config_api_key)
        /\ (r.method = "GET") => r.body = "absent"
        /\ (r.method = "OPTIONS") =>
              (/\ r.body = "absent" /\ ~r.multipart /\ ~r.task_id
               /\ ~r.api_key /\ ~r.config_api_key)
        /\ (r.body # "ok") =>
              (~r.prompt /\ \A s \in Slots : r.files[s] = "none")
        /\ (r.body # "ok" /\ r.route \notin StatusRoutes) => ~r.api_key
        /\ (r.route \notin StatusRoutes) => ~r.task_id
        /\ (r.route \in StatusRoutes) => (r.body = "absent" /\ ~r.multipart)
        /\ (r.route = "/video_task_status/") =>
              (~r.api_key /\ ~r.config_api_key) }

NoRequest ==
    [route |-> None, task_id |-> FALSE, blocked |-> FALSE, method |-> None,
     body |-> "absent",
     multipart |-> FALSE,
     prompt |-> FALSE, api_key |-> FALSE, config_api_key |-> FALSE,
     video_type |-> None, files |-> [s \in Slots |-> "none"]]

\* A response: its status code, the body's success field ("true", "false" or
\* "absent"), the task identifier the body carries ("id" or None), the body's
\* module field (None when it has none), and whether an except clause built it
Response(status, success, task_id, module, raised) ==
    [status |-> status, success |-> success, task_id |-> task_id,
     module |-> module, raised |-> raised]

NoResponse == Response(0, "absent", None, None, FALSE)

\* BaseModule.send_error_response and build_error_response
ModuleError(m, status) == Response(status, "false", None, m, FALSE)

\* the same, called in an except clause of the module
ModuleCaught(m) == Response(500, "false", None, m, TRUE)

\* MainRequestHandler.send_json_response(404, ...), lines 152-156 and 186-190
MainNotFound == Response(404, "false", None, None, FALSE)

\* for a mutant: an exception that no except clause handles
ExceptionEscapes(m) == Response(0, "absent", None, None, TRUE)

\* what an exception raised while a request is handled becomes: in a module,
\* the 500 of the handler's or handle_request's `except Exception`; in
\* do_GET / do_POST (m = None), the 500 of lines 158-164 and 192-198
ExceptionResponse(m) ==
    IF m = None THEN Response(500, "false", None, None, TRUE) ELSE ModuleCaught(m)

\* the parser of the route decodes the body and finds the fields
Decodes(r) ==
    /\ r.body = "ok"
    /\ (r.route \notin {"/text_to_video"} \cup OtherRoutes \cup ImageRoutes) =>
          r.multipart

\* the file in a slot as the handler sees it
FileIn(r, s) == IF Decodes(r) THEN r.files[s] ELSE "none"

\* the video_type the advanced handler works with, line 146 and 153-154
VideoTypeOf(r) == IF Decodes(r) THEN r.video_type ELSE "image_to_video_first_frame"

\* for a mutant: handle_generate_video takes every reference_image field
\* of the form
SlotsReadAll(r) ==
    CASE r.route \in {"/generate_video", "/upload_and_create_task"} -> Slots
      [] r.route = "/image_to_video_advanced" ->
            IF VideoTypeOf(r) = "image_to_video_first_last_frame"
            THEN {s \in Slots : s <= 2} ELSE {1}
      [] r.route = "/upload_video" -> {1}
      [] r.route = "/seedream_generate" -> IF r.multipart THEN Slots ELSE {}
      [] OTHER -> {}

\* the slots a handler looks at: range(1, self.max_images + 1) in
\* handle_generate_video, every image_file field in
\* handle_upload_and_create_task, first_frame and (in first-last mode)
\* last_frame in handle_image_to_video_advanced, every file field of the
\* form in handle_seedream_generate (it reads a form only under a multipart
\* content-type)
SlotsRead(r) ==
    CASE r.route = "/generate_video" -> {s \in Slots : s <= MaxImages}
      [] r.route = "/upload_and_create_task" -> Slots
      [] r.route = "/image_to_video_advanced" ->
            IF VideoTypeOf(r) = "image_to_video_first_last_frame"
            THEN {s \in Slots : s <= 2} ELSE {1}
      [] r.route = "/upload_video" -> {1}
      [] r.route = "/seedream_generate" -> IF r.multipart THEN Slots ELSE {}
      [] OTHER -> {}

\* len(file_content) > self.max_file_size is tested before the upload:
\* not in handle_generate_video and handle_seedream_generate
ChecksSize(r) == r.route \notin {"/generate_video", "/seedream_generate"}

\* state of a handler: where it is, which slot it uploads, and its response
Stop(at, s, answer) == [pc |-> at, slot |-> s, response |-> answer]

Answer(answer) == Stop("done", 0, answer)

\* for a mutant: handle_image_to_video_advanced without the test of lines
\* 178-184 that the frames it needs were uploaded
AfterUploadsUnchecked(r, urls) ==
    IF r.route = "/upload_video" /\ urls > 0
    THEN Answer(Response(200, "true", None, None, FALSE))
    ELSE Stop("upstream", 0, NoResponse)

\* what a handler does once its uploads are over, up to the upstream call:
\* ref_i2v_module.py lines 102-104 and 171-174, text_to_video_module.py
\* lines 178-184
AfterUploads(r, urls) ==
    LET m == ModuleOf(r.route)
    IN CASE r.route = "/generate_video" ->
              IF urls = 0 THEN Answer(ModuleError(m, 400))
              ELSE Stop("upstream", 0, NoResponse)
         [] r.route = "/upload_and_create_task" ->
              IF urls = 0 \/ urls > MaxImages THEN Answer(ModuleError(m, 400))
              ELSE Stop("upstream", 0, NoResponse)
         [] r.route = "/image_to_video_advanced" ->
              IF /\ VideoTypeOf(r) \in {"image_to_video_first_frame",
                                        "image_to_video_first_last_frame"}
                 /\ FileIn(r, 1) = "none"
              THEN Answer(ModuleError(m, 400))
              ELSE IF /\ VideoTypeOf(r) = "image_to_video_first_last_frame"
                      /\ FileIn(r, 2) = "none"
              THEN Answer(ModuleError(m, 400))
              ELSE Stop("upstream", 0, NoResponse)
         [] r.route = "/upload_video" ->
              IF urls = 0 THEN Answer(ModuleError(m, 400))
              ELSE Answer(Response(200, "true", None, None, FALSE))
         [] r.route = "/seedream_generate" ->
              IF ~(Decodes(r) /\ r.prompt) THEN Answer(ModuleError(m, 400))
              ELSE Stop("upstream", 0, NoResponse)
         [] OTHER -> Stop("upstream", 0, NoResponse)

\* the handler's run from slot k on, with urls collected so far, to its next
\* upload, its upstream call or its response
Proceed(r, k, urls) ==
    LET todo == {s \in SlotsRead(r) : s >= k /\ FileIn(r, s) # "none"}
    IN IF todo = {} THEN AfterUploads(r, urls)
       ELSE LET s == CHOOSE x \in todo : \A y \in todo : x <= y
            IN IF FileIn(r, s) = "big" /\ ChecksSize(r)
               THEN Answer(ModuleError(ModuleOf(r.route), 400))
               ELSE Stop("upload", s, NoResponse)

\* RefI2VModule.handle_request, handle_task_status lines 51-61,
\* handle_generate_video lines 76-90 and
\* handle_upload_and_create_task lines 141-151, up to the first upload
EnterRefI2V(r) ==
    LET m == "ref_i2v_module"
        key == (Decodes(r) /\ r.api_key) \/ r.config_api_key
        prompt == Decodes(r) /\ r.prompt
    IN IF r.route = "/task_status/"
       THEN IF ~r.task_id THEN Answer(ModuleError(m, 400))
            ELSE IF ~(r.config_api_key \/ r.api_key) THEN Answer(ModuleError(m, 400))
            ELSE Stop("upstream", 0, NoResponse)
       ELSE IF r.method # "POST" THEN Answer(ModuleError(m, 404))
       ELSE IF r.route = "/generate_video"
       THEN IF r.body = "absent" THEN Answer(ModuleError(m, 400))
            ELSE IF ~Decodes(r) \/ (~r.prompt /\ ~r.api_key
                                     /\ \A s \in Slots : r.files[s] = "none")
            THEN Answer(ModuleError(m, 400))
            ELSE IF ~key \/ ~prompt THEN Answer(ModuleError(m, 400))
            ELSE Proceed(r, 1, 0)
       ELSE IF ~r.multipart THEN Answer(ModuleError(m, 400))
            ELSE IF ~key \/ ~prompt THEN Answer(ModuleError(m, 400))
            ELSE Proceed(r, 1, 0)

\* TextToVideoModule.handle_request, handle_video_task_status lines 247-255,
\* handle_text_to_video lines 82-93 and
\* handle_image_to_video_advanced lines 133-142, up to the first upload
EnterTextToVideo(r) ==
    LET m == "text_to_video"
    IN IF r.route = "/video_task_status/"
       THEN IF r.method # "GET" THEN Answer(ModuleError(m, 405))
            ELSE IF ~r.task_id THEN Answer(ModuleError(m, 400))
            ELSE Stop("upstream", 0, NoResponse)
       ELSE IF r.method # "POST" THEN Answer(ModuleError(m, 405))
       ELSE IF r.route = "/text_to_video"
       THEN IF r.body \in {"absent", "wrong_type"} THEN Answer(ExceptionResponse(m))
            ELSE IF r.body = "garbled" THEN Answer(ModuleError(m, 400))
            ELSE IF ~r.prompt THEN Answer(ModuleError(m, 400))
            ELSE Stop("upstream", 0, NoResponse)
       ELSE IF ~r.multipart THEN Answer(ModuleError(m, 400))
            ELSE Proceed(r, 1, 0)

\* V2TModule.handle_request, handle_video_comprehension_gen_text lines 48-75
\* and handle_upload_video lines 90-104, up to the upload or the upstream call
EnterV2T(r) ==
    LET m == "v2t_module"
        key == (Decodes(r) /\ r.api_key) \/ r.config_api_key
        prompt == Decodes(r) /\ r.prompt
    IN IF r.method # "POST" THEN Answer(ModuleError(m, 404))
       ELSE IF r.route = "/video_comprehension_gen_text"
       THEN IF r.body = "wrong_type" THEN Answer(ExceptionResponse(m))
            ELSE IF r.body # "ok" /\ ~r.multipart THEN Answer(ModuleError(m, 400))
            ELSE IF ~key \/ ~prompt THEN Answer(ModuleError(m, 400))
            ELSE Stop("upstream", 0, NoResponse)
       ELSE Proceed(r, 1, 0)

\* SeedreamModule.handle_request and handle_seedream_generate lines 117-197,
\* up to the first upload; a content-type that is not multipart/form-data is
\* taken to be application/json
EnterSeedream(r) ==
    LET m == "seedream"
    IN IF r.method # "POST" THEN Answer(ModuleError(m, 405))
       ELSE IF r.multipart THEN Proceed(r, 1, 0)
       ELSE IF r.body = "absent" THEN Answer(ModuleError(m, 400))
       ELSE IF r.body \in {"garbled", "wrong_type"} THEN Answer(ExceptionResponse(m))
       ELSE Proceed(r, 1, 0)

\* do_OPTIONS, lines 99-103: a 200 with the CORS headers and no body
Preflight == Response(200, "absent", None, None, FALSE)

\* do_GET lines 145-164 and do_POST lines 171-198, up to the first upload
Resolve(r) ==
    IF r.method = "OPTIONS" THEN Answer(Preflight)
    ELSE IF r.method = "POST" /\ r.body = "bad_length" THEN Answer(ExceptionResponse(None))
    ELSE IF ModuleOf(r.route) = None THEN Answer(MainNotFound)
    ELSE IF ModuleOf(r.route) = "ref_i2v_module" THEN EnterRefI2V(r)
    ELSE IF ModuleOf(r.route) = "v2t_module" THEN EnterV2T(r)
    ELSE IF ModuleOf(r.route) = "seedream" THEN EnterSeedream(r)
    ELSE EnterTextToVideo(r)

\* for a mutant: the handlers without their check_blocked_ip test
EnterUnchecked(r) == Resolve(r)

\* do_OPTIONS, do_GET and do_POST, lines 95-198: each begins with
\* `if self.check_blocked_ip(): return` (lines 97-98, 108-109, 168-169),
\* which ends the handler with nothing written
Enter(r) ==
    IF r.blocked THEN Stop("dropped", 0, NoResponse) ELSE Resolve(r)

\* how the upstream answers a submission: 200 with or without the id field,
\* an HTTPError, or any other exception (timeout, connection, bad JSON)
UpstreamOutcomes == {"200_id", "200_noid", "http_error", "exception"}

\* the status of an upstream HTTPError
HttpErrorCodes == {401, 429}

\* the response to the submitter: _create_video_task lines 421-466 with
\* its callers, handle_generate_video lines 108-121, and
\* handle_upload_and_create_task lines 178-192; for V2TModule, "200_id" is a
\* 200 with choices, call_video_comprehension_api with its caller; for
\* SeedreamModule, "200_id" is a response with a data field, "200_noid" one
\* without, and _call_api_with_retry turns every exception into None, which
\* handle_seedream_generate lines 216-264 answers with a 500; for the status
\* routes, _query_task_status lines 469-519 with handle_video_task_status
\* lines 258-263, and handle_task_status lines 62-74
SubmitResponse(r, o, code) ==
    LET m == ModuleOf(r.route)
    IN IF m = "seedream"
       THEN IF o = "200_id" THEN Response(200, "true", None, None, FALSE)
            ELSE ModuleError(m, 500)
       ELSE IF m = "v2t_module"
       THEN IF o = "200_id" THEN Response(200, "true", None, None, FALSE)
            ELSE IF o = "200_noid" THEN ModuleError(m, 500)
            ELSE ModuleCaught(m)
       ELSE IF r.route = "/video_task_status/"
       THEN IF o \in {"200_id", "200_noid"}
            THEN Response(200, "absent", IF o = "200_id" THEN "id" ELSE None,
                          None, FALSE)
            ELSE ModuleCaught(m)
       ELSE IF m = "text_to_video"
       THEN IF o = "200_id" THEN Response(200, "true", "id", None, FALSE)
            ELSE IF o = "200_noid" THEN ModuleError(m, 500)
            ELSE ModuleCaught(m)
       ELSE CASE o = "http_error" -> Response(code, "false", None, m, TRUE)
              [] o = "exception" -> ModuleCaught(m)
              [] OTHER ->
                   IF r.route = "/generate_video"
                   THEN Response(200, "true", IF o = "200_id" THEN "id" ELSE None,
                                 None, FALSE)
                   ELSE Response(200, "absent", IF o = "200_id" THEN "id" ELSE None,
                                 None, FALSE)

\* the body of an upstream HTTPError: JSON with an error object, or text that
\* is not JSON
ErrorBodies == {"error_object", "not_json"}

\* str(e) of an exception that urlopen or cv_process raises
Exceptions == {"timed out", "Connection refused"}

\* what the upstream answered: status code (0: no response), kind of body,
\* and the text of the exception when the call raised
Reply(code, b, exc) == [code |-> code, body |-> b, exc |-> exc]

NoReply == Reply(0, "none", None)

\* what a response body carries besides the fields of Response: the
\* upstream_error and error_response_content fields of build_error_response,
\* the text of an exception inside its error message (detail), and the
\* upstream's JSON body handed on as it was parsed (data)
Payload(upstream_error, error_response_content, detail, data) ==
    [upstream_error |-> upstream_error,
     error_response_content |-> error_response_content,
     detail |-> detail, data |-> data]

NoPayload == Payload(FALSE, FALSE, None, FALSE)

\* str(e) of the exception that handling request r raises before any upload:
\* int() of the Content-Length, body.decode of None, data.get of a JSON value
\* that is no object, json.loads in handle_seedream_generate
RaisedBy(r) ==
    CASE r.body = "bad_length" -> "invalid literal for int()"
      [] r.body = "absent" -> "'NoneType' object has no attribute 'decode'"
      [] r.body = "wrong_type" -> "'list' object has no attribute 'get'"
      [] OTHER -> "Expecting value"

\* every except clause that answers puts str(e) into the error message
EnterPayload(r) ==
    IF Enter(r).response.raised
    THEN Payload(FALSE, FALSE, RaisedBy(r), FALSE)
    ELSE NoPayload

\* call_video_comprehension_api lines 141-151: the body is kept only when
\* json.loads accepts it
V2TErrorPayload(b) ==
    Payload(b = "error_object", b = "error_object", None, FALSE)

\* the payload of the response to an upstream answer: the HTTPError branches
\* of _create_video_task, _query_task_status (text_to_video), of
\* handle_task_status, handle_generate_video, handle_upload_and_create_task
\* (ref_i2v) and of call_video_comprehension_api, and their except Exception
\* branches; SeedreamModule answers a None of _call_api_with_retry with a
\* fixed message
SubmitPayload(r, o, b, exc) ==
    LET m == ModuleOf(r.route)
    IN CASE o \in {"200_id", "200_noid"} ->
              Payload(FALSE, FALSE, None,
                      r.route \in StatusRoutes \cup {"/upload_and_create_task"})
         [] m = "seedream" -> NoPayload
         [] o = "http_error" ->
              IF m = "v2t_module" THEN V2TErrorPayload(b)
              ELSE Payload(b = "error_object", TRUE, None, FALSE)
         [] OTHER -> Payload(FALSE, FALSE, exc, FALSE)

\* the routes on which TextToVideoModule creates a task
VideoSubmitRoutes == {"/text_to_video", "/image_to_video_advanced"}

\* the API keys a request of TextToVideoModule may be sent with: the one the
\* caller put in the body, and the configured one
CallerKey == "api_key"

ConfigKey == "self.api_key"

\* _create_video_task, line 388: use_api_key = api_key if api_key else
\* self.api_key
UseApiKey(r) == IF Decodes(r) /\ r.api_key THEN CallerKey ELSE ConfigKey

\* _query_task_status, lines 475-477: 'Authorization': f'Bearer {self.api_key}'
QueryApiKey(r) == ConfigKey

InitGateway ==
    /\ req = NoRequest
    /\ h_pc = "idle"
    /\ slot = 0
    /\ image_urls = 0
    /\ uploads = 0
    /\ upstream = "none"
    /\ reply = NoReply
    /\ response = NoResponse
    /\ payload = NoPayload
    /\ task_key = None

\* a request arrives and is handled up to its first upload, its upstream
\* call or its response
HandleRequest(r) ==
    /\ h_pc = "idle"
    /\ req' = r
    /\ h_pc' = Enter(r).pc
    /\ slot' = Enter(r).slot
    /\ response' = Enter(r).response
    /\ image_urls' = 0
    /\ uploads' = 0
    /\ upstream' = "none"
    /\ reply' = NoReply
    /\ payload' = EnterPayload(r)
    /\ UNCHANGED task_key

\* tos_uploader.upload_file returns, and the handler goes on
UploadReturns(ok) ==
    /\ h_pc = "upload"
    /\ uploads' = uploads + 1
    /\ image_urls' = IF ok THEN image_urls + 1 ELSE image_urls
    /\ LET next == IF ok THEN Proceed(req, slot + 1, image_urls + 1)
                   ELSE Answer(ModuleError(ModuleOf(req.route), 500))
       IN /\ h_pc' = next.pc
          /\ slot' = next.slot
          /\ response' = next.response
    /\ UNCHANGED <<req, upstream, reply, payload, task_key>>

\* urllib.request.urlopen returns or raises, and the handler answers
UpstreamReturns(o, code, b, exc) ==
    /\ h_pc = "upstream"
    /\ upstream' = o
    /\ reply' = Reply(code, b, exc)
    /\ h_pc' = "done"
    /\ response' = SubmitResponse(req, o, code)
    /\ payload' = SubmitPayload(req, o, b, exc)
    /\ task_key' = IF req.route \in VideoSubmitRoutes /\ o = "200_id"
                   THEN UseApiKey(req) ELSE task_key
    /\ UNCHANGED <<req, slot, image_urls, uploads>>

\* the response is sent and the server takes the next request
SendResponse ==
    /\ h_pc = "done"
    /\ h_pc' = "idle"
    /\ req' = NoRequest
    /\ slot' = 0
    /\ image_urls' = 0
    /\ uploads' = 0
    /\ upstream' = "none"
    /\ reply' = NoReply
    /\ response' = NoResponse
    /\ payload' = NoPayload
    /\ UNCHANGED task_key

\* the handler of a blocked client has returned: the server closes the
\* connection and takes the next request
CloseBlocked ==
    /\ h_pc = "dropped"
    /\ h_pc' = "idle"
    /\ req' = NoRequest
    /\ UNCHANGED <<slot, image_urls, uploads, upstream, reply, response, payload,
                   task_key>>

IdleGateway == InitGateway

ReceiveStep == \E r \in Requests : HandleRequest(r) /\ UNCHANGED <<uvars, rvars, mvars, pvars, tvars, svars, cvars, ivars>>

UploadReturnsStep == \E ok \in BOOLEAN : UploadReturns(ok) /\ UNCHANGED <<uvars, rvars, mvars, pvars, tvars, svars, cvars, ivars>>

\* an upstream answer: 200 with a JSON body, an HTTPError with its status and
\* body, or an exception with its text
UpstreamAnswers ==
    {<<o, Reply(200, "json", None)>> : o \in {"200_id", "200_noid"}}
    \cup {<<"http_error", Reply(c, b, None)>> : c \in HttpErrorCodes, b \in ErrorBodies}
    \cup {<<"exception", Reply(0, "none", e)>> : e \in Exceptions}

UpstreamReturnsStep ==
    \E a \in UpstreamAnswers :
        /\ UpstreamReturns(a[1], a[2].code, a[2].body, a[2].exc)
        /\ UNCHANGED <<uvars, rvars, mvars, pvars, tvars, svars, cvars, ivars>>

SendResponseStep == SendResponse /\ UNCHANGED <<uvars, rvars, mvars, pvars, tvars, svars, cvars, ivars>>

CloseBlockedStep == CloseBlocked /\ UNCHANGED <<uvars, rvars, mvars, pvars, tvars, svars, cvars, ivars>>

\* C12: on every task-submission route, an upstream 200 that carries the task
\* identifier is answered with success and that task_id, and an upstream 200
\* without the identifier is answered with a failure (success false), never
\* with a success.
C12_MissingIdIsFailure ==
    (h_pc = "done" /\ req.route \in SubmitRoutes) =>
        /\ upstream = "200_id" =>
              (response.status = 200 /\ response.success = "true"
               /\ response.task_id = "id")
        /\ upstream = "200_noid" =>
              (response.success = "false" /\ response.status # 200)

\* C13: every failure response the gateway returns, whether a module or the
\* main request handler built it, is an envelope with success false and a
\* non-empty module field.
C13_FailureEnvelopeNamesModule ==
    (h_pc = "done" /\ response.status >= 400) =>
        (response.success = "false" /\ response.module # None)

\* C14: a request rejected with 400 for invalid input has caused no storage
\* upload and no upstream call before the rejection.
C14_ValidationBeforeIO ==
    (h_pc = "done" /\ response.status = 400) => (uploads = 0 /\ upstream = "none")

\* the number of uploaded URLs in the submit request a handler builds from
\* the urls it collected: "reference_images": image_urls
\* (ref_i2v_module.py line 105), one image_url entry per url (lines 175-177),
\* form['image_urls'] (seedream_module.py lines 207-208), and in
\* _create_video_task (text_to_video_module.py lines 363-385) the frames
\* that the video_type asks for, none for 'text_to_video'
SubmitUrls(r, urls) ==
    IF r.route = "/image_to_video_advanced" /\ VideoTypeOf(r) = "text_to_video"
    THEN 0 ELSE urls

\* C34: in every handler that uploads media before it submits a task, the
\* submit request is sent only after every upload of the request succeeded
\* and carries exactly the URLs the uploads returned; if an upload fails the
\* handler answers with an error and sends no submit request.
C34_SubmitCarriesTheUploads ==
    /\ (h_pc = "upstream" \/ upstream # "none") =>
          (uploads = image_urls /\ SubmitUrls(req, image_urls) = image_urls)
    /\ (uploads > image_urls) =>
          (h_pc = "done" /\ response.status >= 400 /\ upstream = "none")

\* C35: no file larger than the module's max_file_size is ever passed to the
\* storage uploader, on any route that uploads media.
C35_NoOversizeUpload ==
    (h_pc = "upload") => (req.files[slot] # "big")

\* C36: a submit request built by /generate_video or /upload_and_create_task
\* always carries at least one and at most max_images reference images,
\* whatever fields the multipart body contains.
C36_ImageCountWithinLimits ==
    (/\ req.route \in {"/generate_video", "/upload_and_create_task"}
     /\ (h_pc = "upstream" \/ upstream # "none")) =>
        (/\ SubmitUrls(req, image_urls) >= 1
         /\ SubmitUrls(req, image_urls) <= MaxImages)

\* C36's case: the form has a file in every slot, more than max_images, and
\* /generate_video submits with max_images of them
C36_Witness ==
    /\ req.route = "/generate_video"
    /\ \A s \in Slots : req.files[s] # "none"
    /\ NumSlots > MaxImages
    /\ h_pc = "upstream"
    /\ SubmitUrls(req, image_urls) = MaxImages

\* C37: a task submitted through /text_to_video or /image_to_video_advanced
\* with a caller-supplied api_key is polled through /video_task_status/{id}
\* with the API key that was used for its submission.
C37_PollUsesSubmissionKey ==
    (/\ req.route = "/video_task_status/"
     /\ (h_pc = "upstream" \/ upstream # "none")
     /\ task_key = CallerKey) =>
        QueryApiKey(req) = task_key

\* C38: a GET, POST or OPTIONS request from a client address in the
\* blocked-IP set never reaches route resolution or a module handler, causes
\* no upload and no upstream call, and gets no response written.
C38_BlockedClientGetsNothing ==
    (req # NoRequest /\ req.blocked) =>
        /\ h_pc = "dropped"
        /\ response = NoResponse /\ payload = NoPayload
        /\ uploads = 0 /\ image_urls = 0
        /\ upstream = "none" /\ reply = NoReply

\* C38's case: a blocked client's request, which from another client would
\* be uploaded and submitted, has been dropped
C38_Witness ==
    /\ h_pc = "dropped" /\ req.blocked
    /\ req.route = "/generate_video" /\ req.method = "POST"
    /\ Resolve(req).pc = "upload"

C22_UpstreamErrorIsCarried ==
    (h_pc = "done" /\ upstream = "http_error") =>
        /\ response.success = "false"
        /\ (reply.body = "error_object") => payload.upstream_error
        /\ (reply.body = "not_json") =>
              (~payload.upstream_error /\ payload.error_response_content)

\* C23: when the upstream answers a submit or a status request with an HTTP
\* error status, the response to the caller has that same status code, on
\* every submit route and every status route.
C23_UpstreamStatusIsKept ==
    (/\ h_pc = "done" /\ upstream = "http_error"
     /\ req.route \in SubmitRoutes \cup StatusRoutes) =>
        response.status = reply.code

\* the method a route's handler works for: GET on the status routes, POST on
\* the others
MethodOf(route) == IF route \in StatusRoutes THEN "GET" ELSE "POST"

\* C24: a request whose path is a registered route but whose method the route
\* does not support is answered with 405 in every module, not with 404, and
\* the route's handler makes no upload and no upstream call.
C24_WrongMethodIs405 ==
    (/\ ModuleOf(req.route) # None /\ ~req.blocked
     /\ req.method \in {"GET", "POST"} /\ req.method # MethodOf(req.route)) =>
        /\ h_pc = "done"
        /\ response.status = 405
        /\ uploads = 0 /\ upstream = "none"

\* C25: a submit request with a missing, malformed or incomplete body is
\* answered with 400: POST /text_to_video with no body, with a body that is
\* not JSON, or with an empty prompt is never answered 500 and never reaches
\* the upstream.
C25_BadBodyIs400 ==
    (/\ req.route = "/text_to_video" /\ req.method = "POST" /\ ~req.blocked
     /\ (req.body \in {"absent", "garbled"} \/ (req.body = "ok" /\ ~req.prompt))) =>
        /\ h_pc = "done"
        /\ response.status = 400
        /\ upstream = "none"

\* C26: for GET /task_status/{id} and GET /video_task_status/{id}, when the
\* upstream answers 200 the gateway answers 200 with the upstream body
\* unchanged, whatever the body reports, and the lookup requires nothing of
\* the request beyond the method and the id.
C26_Status200PassesThrough ==
    (/\ req.route \in StatusRoutes /\ req.method = "GET" /\ req.task_id
     /\ ~req.blocked) =>
        /\ h_pc \in {"upstream", "done"}
        /\ (h_pc = "done") => upstream # "none"
        /\ (h_pc = "done" /\ upstream \in {"200_id", "200_noid"}) =>
              (response.status = 200 /\ payload.data)

\* C27: when a handler fails with an exception, the error text of the
\* response is a generic message that holds nothing of the exception, so that
\* two runs which differ only in the exception raised get the same envelope.
C27_ErrorTextIsGeneric ==
    (h_pc = "done" /\ response.raised) => payload.detail = None

\* C15: no exception escapes request handling: whatever the path, method,
\* headers and body, an absent body included, the request ends with a response
\* that has a status code, a 500 when something raised outside the handlers'
\* own answers, and the server goes on to serve the next request.
C15_NoExceptionEscapes ==
    /\ h_pc \in {"idle", "upload", "upstream", "done", "dropped"}
    /\ h_pc = "dropped" => req.blocked
    /\ h_pc = "done" => response.status \in {200, 400, 404, 405, 500} \cup HttpErrorCodes
    /\ (h_pc = "done" /\ response.raised) => response.status >= 400
    /\ (h_pc = "done" /\ req.method = "POST" /\ req.body = "bad_length") =>
          response.status = 500
    /\ (h_pc = "done" /\ req.method = "POST" /\ req.route = "/text_to_video"
        /\ req.body = "absent") => response.status = 500

\* a request whose handling raised (json.loads of an absent body) has been
\* answered with the 500 of an except clause
C15_Witness ==
    /\ h_pc = "done"
    /\ req.route = "/text_to_video" /\ req.method = "POST" /\ req.body = "absent"
    /\ response.raised /\ response.status = 500

-----------------------------------------------------------------------------
(* The instruction text: TextToVideoModule._create_video_task              *)

\* what the handlers pass (text_to_video_module.py lines 95-99 and 187-210):
\* None for a parameter the request does not carry, else its value, which
\* may be an empty string or the number 0. Numbers stand as their decimal
\* text, as the f-string writes them
Resolutions == {None, "", "720p"}

AspectRatios == {None, "16:9"}

Durations == {None, "0", "5"}

Seeds == {None, "0", "7"}

GenParams ==
    [resolution : Resolutions, aspect_ratio : AspectRatios, duration : Durations,
     seed : Seeds, fixed_camera : BOOLEAN]

\* one piece of the text: the prompt, or " --flag value"
Token(flag, value) == [flag |-> flag, value |-> value]

\* if resolution: / if aspect_ratio: on an Optional[str]
StrTruthy(v) == v \notin {None, ""}

\* if duration: on an Optional[int]
IntTruthy(v) == v \notin {None, "0"}

\* for a mutant: the duration token goes before the aspect-ratio token
EnhancedPromptDurFirst(p) ==
    LET t0 == <<Token("prompt", "text")>>
        t1 == IF StrTruthy(p.resolution)
              THEN Append(t0, Token("--rs", p.resolution)) ELSE t0
        t2 == IF IntTruthy(p.duration)
              THEN Append(t1, Token("--dur", p.duration)) ELSE t1
        t3 == IF StrTruthy(p.aspect_ratio)
              THEN Append(t2, Token("--rt", p.aspect_ratio)) ELSE t2
        t4 == IF p.seed # None THEN Append(t3, Token("--seed", p.seed)) ELSE t3
    IN IF p.fixed_camera THEN Append(t4, Token("--cf", "True")) ELSE t4

\* lines 329-350: enhanced_prompt
EnhancedPrompt(p) ==
    LET t0 == <<Token("prompt", "text")>>
        t1 == IF StrTruthy(p.resolution)
              THEN Append(t0, Token("--rs", p.resolution)) ELSE t0
        t2 == IF StrTruthy(p.aspect_ratio)
              THEN Append(t1, Token("--rt", p.aspect_ratio)) ELSE t1
        t3 == IF IntTruthy(p.duration)
              THEN Append(t2, Token("--dur", p.duration)) ELSE t2
        t4 == IF p.seed # None THEN Append(t3, Token("--seed", p.seed)) ELSE t3
    IN IF p.fixed_camera THEN Append(t4, Token("--cf", "True")) ELSE t4

InitInstruction ==
    /\ gen_params \in GenParams
    /\ request_text = <<>>

IdleInstruction ==
    /\ gen_params = [resolution |-> None, aspect_ratio |-> None, duration |-> None,
                     seed |-> None, fixed_camera |-> FALSE]
    /\ request_text = <<>>

\* _create_video_task, lines 329-361: request_data carries the enhanced prompt
CreateVideoTask ==
    /\ request_text = <<>>
    /\ request_text' = EnhancedPrompt(gen_params)
    /\ UNCHANGED gen_params

CreateVideoTaskStep ==
    CreateVideoTask /\ UNCHANGED <<uvars, rvars, mvars, pvars, tvars, gvars, svars, cvars>>

\* the place of a flag in the fixed order
FlagRank(flag) ==
    CASE flag = "prompt" -> 0
      [] flag = "--rs" -> 1
      [] flag = "--rt" -> 2
      [] flag = "--dur" -> 3
      [] flag = "--seed" -> 4
      [] OTHER -> 5

\* the value a parameter contributes to the text, None when it has none to
\* contribute: an absent or empty resolution or aspect ratio, an absent or
\* zero duration, an absent seed, a camera that is not fixed
Supplied(p) ==
    [rs |-> IF p.resolution = "" THEN None ELSE p.resolution,
     rt |-> IF p.aspect_ratio = "" THEN None ELSE p.aspect_ratio,
     dur |-> IF p.duration = "0" THEN None ELSE p.duration,
     seed |-> p.seed,
     cf |-> IF p.fixed_camera THEN "True" ELSE None]

\* C33: _create_video_task appends the flag tokens to the prompt in one
\* fixed order (--rs, --rt, --dur, --seed, --cf), each supplied parameter
\* exactly once with its value and nothing for the others, so the text is a
\* function of the inputs.
C33_FlagOrderIsFixed ==
    (request_text # <<>>) =>
        LET want == Supplied(gen_params)
            flags == <<"--rs", "--rt", "--dur", "--seed", "--cf">>
            keys == <<"rs", "rt", "dur", "seed", "cf">>
        IN /\ request_text[1] = Token("prompt", "text")
           /\ \A i, j \in DOMAIN request_text :
                 i < j => FlagRank(request_text[i].flag) < FlagRank(request_text[j].flag)
           /\ \A k \in 1..5 :
                 LET at == {i \in DOMAIN request_text : request_text[i].flag = flags[k]}
                 IN IF want[keys[k]] = None THEN at = {}
                    ELSE /\ Cardinality(at) = 1
                         /\ \A i \in at : request_text[i].value = want[keys[k]]

\* C33's case: all five parameters are supplied and the text has been built
C33_Witness ==
    /\ Len(request_text) = 6
    /\ \A k \in {"rs", "rt", "dur", "seed", "cf"} : Supplied(gen_params)[k] # None
    /\ gen_params.seed = "0"

-----------------------------------------------------------------------------
(* The serving loop: run_server (main_server.py) serves with a             *)
(* socketserver.TCPServer, whose serve_forever accepts a connection, runs  *)
(* the handler to its end in the same thread, and only then accepts the    *)
(* next. The handler of /seedream_generate sleeps between its attempts.    *)

\* the routes of the requests that arrive: one whose handler retries with a
\* delay, one whose handler makes a single upstream call
ServedRoutes == {"/seedream_generate", "/text_to_video"}

InitServer ==
    /\ connections = 0
    /\ backlog = 0
    /\ handling = None
    /\ httpd_pc = "select"
    /\ retries = 0

IdleServer == InitServer

\* a client connects: the kernel completes the handshake and queues the
\* connection, whatever the serving thread is doing
Connect ==
    /\ connections < MaxConnections
    /\ connections' = connections + 1
    /\ backlog' = backlog + 1
    /\ UNCHANGED <<handling, httpd_pc, retries>>

\* serve_forever, line 365: the thread is back in its select, takes a
\* connection off the queue and calls the handler, which reaches its
\* upstream call
Accept(route) ==
    /\ httpd_pc = "select"
    /\ backlog > 0
    /\ backlog' = backlog - 1
    /\ handling' = route
    /\ httpd_pc' = "call"
    /\ retries' = 0
    /\ UNCHANGED connections

\* the upstream call of the handler ends. _call_api_with_retry, lines 281-287
\* and 378-387: after a network error with attempts left the handler goes
\* into time.sleep(self.retry_delay), in the serving thread
CallEnds(error_msg) ==
    /\ httpd_pc = "call"
    /\ IF /\ handling = "/seedream_generate"
          /\ error_msg # NoError
          /\ Retries(error_msg, retries, MaxRetries)
       THEN httpd_pc' = "sleep" /\ retries' = retries + 1
       ELSE httpd_pc' = "respond" /\ UNCHANGED retries
    /\ UNCHANGED <<connections, backlog, handling>>

\* time.sleep returns and the handler calls the upstream again
SleepEnds ==
    /\ httpd_pc = "sleep"
    /\ httpd_pc' = "call"
    /\ UNCHANGED <<connections, backlog, handling, retries>>

\* the handler returns, the response is written, and the thread goes back to
\* its select
Respond ==
    /\ httpd_pc = "respond"
    /\ httpd_pc' = "select"
    /\ handling' = None
    /\ retries' = 0
    /\ UNCHANGED <<connections, backlog>>

ConnectStep == Connect /\ UNCHANGED <<uvars, rvars, mvars, pvars, tvars, gvars, cvars, ivars>>

AcceptStep ==
    \E route \in ServedRoutes :
        Accept(route) /\ UNCHANGED <<uvars, rvars, mvars, pvars, tvars, gvars, cvars, ivars>>

CallEndsStep ==
    \E error_msg \in ErrorMessages \cup {NoError} :
        CallEnds(error_msg) /\ UNCHANGED <<uvars, rvars, mvars, pvars, tvars, gvars, cvars, ivars>>

SleepEndsStep == SleepEnds /\ UNCHANGED <<uvars, rvars, mvars, pvars, tvars, gvars, cvars, ivars>>

RespondStep == Respond /\ UNCHANGED <<uvars, rvars, mvars, pvars, tvars, gvars, cvars, ivars>>

\* C28: while one request waits in a retry delay, the server can still accept
\* another request that has arrived: the delay blocks only the request that
\* waits.
C28_DelayBlocksOnlyWaiter ==
    (httpd_pc = "sleep" /\ backlog > 0) => ENABLED AcceptStep

-----------------------------------------------------------------------------
(* The upload caches of the modules: every module that uploads constructs  *)
(* its own TOSUploader, and with it its own upload_cache                   *)

\* the modules that run_server registers, lines 331-344; each __init__
\* constructs a TOSUploader
UploaderOwners == {"image_to_video", "text_to_video", "video_comprehension"}

NoUpload ==
    [module |-> None, content |-> 0, cached |-> FALSE, wrote |-> FALSE,
     success |-> FALSE, elsewhere |-> FALSE]

InitCaches ==
    /\ module_cache = [m \in UploaderOwners |-> {}]
    /\ n_uploads = 0
    /\ last_upload = NoUpload

IdleCaches == InitCaches

\* self.tos_uploader.upload_file(content, ...) in a handler of module m,
\* tos_utils.py lines 57-64 and 86-112: a hit when the key is in this
\* uploader's cache, else tosutil cp runs and, when the upload succeeds, the
\* key goes into this uploader's cache. elsewhere: before the call, the
\* uploader of another module had uploaded these bytes successfully
UploadThrough(m, c, ok) ==
    /\ n_uploads < MaxUploads
    /\ n_uploads' = n_uploads + 1
    /\ LET hit == Md5Hex(c) \in module_cache[m]
       IN /\ last_upload' =
                [module |-> m, content |-> c, cached |-> hit, wrote |-> ~hit,
                 success |-> hit \/ ok,
                 elsewhere |-> \E o \in UploaderOwners \ {m} :
                                   Md5Hex(c) \in module_cache[o]]
          /\ module_cache' =
                IF ~hit /\ ok
                THEN [module_cache EXCEPT ![m] = @ \cup {Md5Hex(c)}]
                ELSE module_cache

UploadThroughStep ==
    \E m \in UploaderOwners, c \in Contents, ok \in BOOLEAN :
        UploadThrough(m, c, ok) /\ UNCHANGED <<uvars, rvars, mvars, pvars, tvars, gvars, svars, ivars>>

\* C29: the upload cache is one resource shared by all requests: once some
\* bytes were uploaded successfully through a route of one module, an upload
\* of the same bytes through a route of another module is a cache hit that
\* makes no storage write.
C29_CacheIsShared ==
    last_upload.elsewhere => (last_upload.cached /\ ~last_upload.wrote)

-----------------------------------------------------------------------------
(* The uploader's claims. In the log, i < j means that operation i returned *)
(* before operation j; under Spec the calls do not overlap.                 *)

IsUpload(i) == log[i].op = "upload"

SameBytes(i, j) == IsUpload(i) /\ IsUpload(j) /\ log[i].content = log[j].content

ClearedBetween(i, j) == \E k \in (i+1)..(j-1) : log[k].op = "clear"

WritesOf(i) == IF log[i].wrote THEN 1 ELSE 0

\* C1 as stated: with the cache enabled, two upload_file calls with identical
\* bytes invoke the storage write exactly once, and the second call returns
\* cached=true without any storage I/O.
C1_TwoCallsOneWrite ==
    enable_cache =>
        \A i, j \in DOMAIN log :
            (i < j /\ SameBytes(i, j)) =>
                /\ WritesOf(i) + WritesOf(j) = 1
                /\ log[j].success /\ log[j].cached
                /\ ~log[j].wrote /\ ~log[j].cache_changed

\* C1 as amended: with the cache enabled, once an upload_file call has
\* succeeded, a later call with identical bytes and no clear_cache in between
\* returns cached=true without a storage write and without touching the
\* cache; when the first call was the one that wrote, the two calls together
\* invoke the storage write exactly once.
C1_SecondCallIsCacheHit ==
    enable_cache =>
        \A i, j \in DOMAIN log :
            (i < j /\ SameBytes(i, j) /\ log[i].success /\ ~ClearedBetween(i, j)) =>
                /\ log[j].success /\ log[j].cached
                /\ ~log[j].wrote /\ ~log[j].cache_changed
                /\ (~log[i].cached => WritesOf(i) + WritesOf(j) = 1)

\* C1's case: a call that wrote, then a call with the same bytes under
\* another filename that was served from the cache
C1_Witness ==
    /\ enable_cache
    /\ \E i, j \in DOMAIN log :
          /\ i < j /\ SameBytes(i, j) /\ ~ClearedBetween(i, j)
          /\ log[i].success /\ log[i].wrote
          /\ log[j].cached /\ log[j].filename # log[i].filename

\* C2: every cache entry belongs to a content that a storage write confirmed
\* (returncode 0), and an upload_file call that returned failure did not
\* change the cache.
C2_CacheOnlyAfterSuccess ==
    /\ \A k \in DOMAIN upload_cache :
          \E c \in Contents : Md5Hex(c) = k /\ writes[c].ok >= 1
    /\ \A i \in DOMAIN log :
          (IsUpload(i) /\ ~log[i].success) => ~log[i].cache_changed

\* C2's case: a write that failed, a write that succeeded but whose
\* set-acl raised, and a call that populated the cache
C2_Witness ==
    /\ DOMAIN upload_cache # {}
    /\ \E i, j, k \in DOMAIN log :
          /\ IsUpload(i) /\ log[i].error = "upload_failed"
          /\ IsUpload(j) /\ log[j].error = "exception"
          /\ writes[log[j].content].ok >= 1
          /\ IsUpload(k) /\ log[k].success /\ log[k].cache_changed

\* C3 as stated: any two successful calls with identical bytes return the
\* same url, whatever comes in between (other uploads, clear_cache).
C3_SameUrlAlways ==
    enable_cache =>
        \A i, j \in DOMAIN log :
            (i < j /\ SameBytes(i, j) /\ log[i].success /\ log[j].success) =>
                log[i].url = log[j].url

\* C3 as amended: with the cache enabled, any two successful calls with
\* identical bytes and no clear_cache between them return the same url,
\* whatever the filenames and the other uploads in between.
C3_SameUrlUntilCleared ==
    enable_cache =>
        \A i, j \in DOMAIN log :
            (i < j /\ SameBytes(i, j) /\ log[i].success /\ log[j].success
                   /\ ~ClearedBetween(i, j)) =>
                log[i].url = log[j].url

\* C3's case: two successful calls with the same bytes and different
\* filenames, with an upload of other bytes between them
C3_Witness ==
    /\ enable_cache
    /\ \E i, j, k \in DOMAIN log :
          /\ i < k /\ k < j /\ SameBytes(i, j)
          /\ log[i].success /\ log[j].success
          /\ log[i].filename # log[j].filename
          /\ IsUpload(k) /\ log[k].content # log[i].content /\ log[k].success

\* the operations that returned after the last clear_cache (all of them when
\* there was none)
SinceClear ==
    {i \in DOMAIN log : \A k \in DOMAIN log : log[k].op = "clear" => k < i}

\* C39: with the cache enabled, get_cache_size() equals the number of
\* distinct contents uploaded successfully since construction or the last
\* clear_cache(); clear_cache() brings it to 0 and the next upload of any
\* content performs a storage write; with the cache disabled the size is
\* always 0 and every upload performs a storage write.
C39_CacheSizeCountsContents ==
    /\ enable_cache =>
          /\ GetCacheSize =
                Cardinality({log[i].content :
                                i \in {j \in SinceClear : IsUpload(j) /\ log[j].success}})
          /\ \A i \in DOMAIN log :
                (log[i].op = "clear") =>
                    /\ (i = Len(log)) => GetCacheSize = 0
                    /\ (i < Len(log) /\ IsUpload(i + 1)) => log[i + 1].wrote
    /\ ~enable_cache =>
          /\ GetCacheSize = 0
          /\ \A i \in DOMAIN log : IsUpload(i) => log[i].wrote

\* C39's case: a content is uploaded and cached, the cache is cleared, and
\* the next upload of the same content writes to the storage again and
\* brings the size back to 1
C39_Witness ==
    /\ enable_cache
    /\ GetCacheSize = 1
    /\ \E i \in DOMAIN log :
          /\ i + 2 \in DOMAIN log
          /\ IsUpload(i) /\ log[i].success /\ log[i].cache_changed
          /\ log[i + 1].op = "clear"
          /\ SameBytes(i, i + 2) /\ log[i + 2].success /\ log[i + 2].wrote

\* C4: with the cache enabled, at most one storage write per content
\* succeeds, whatever the interleaving of the upload_file calls.
C4_AtMostOneWritePerContent ==
    enable_cache => \A c \in Contents : writes[c].ok <= 1

\* C16: upload_file never raises; when the storage write fails, and also when
\* the write succeeds but applying the public-read access policy fails, it
\* returns a structured error (success false), and the error message tells
\* which of the two steps failed.
C16_BothFailuresAreErrors ==
    \A i \in 1..Len(log) :
        log[i].op = "upload" =>
            /\ log[i].success \in BOOLEAN
            /\ log[i].success <=> log[i].error = None
            /\ log[i].acl \in {"failed", "raised"} =>
                  /\ ~log[i].success
                  /\ log[i].error \notin {None, "upload_failed"}

\* C17: uploading two different byte sequences never produces the same cache
\* key and never produces the same object key, whatever the filenames and
\* the times of the two uploads.
C17_DistinctContentsDistinctKeys ==
    \A i, j \in 1..Len(log) :
        (/\ log[i].op = "upload" /\ log[j].op = "upload"
         /\ log[i].success /\ log[j].success
         /\ ~log[i].cached /\ ~log[j].cached
         /\ log[i].content # log[j].content) =>
            /\ Md5Hex(log[i].content) # Md5Hex(log[j].content)
            /\ log[i].url # log[j].url

Init == InitUploader /\ IdleRegistry /\ IdleMultipart /\ IdlePoll /\ IdleRetry /\ IdleGateway
    /\ IdleServer /\ IdleCaches /\ IdleInstruction

Next == BeginSerial \/ WriteStep \/ AclStep \/ ClearSerial

Spec == Init /\ [][Next]_vars

NextThreads == BeginThread \/ WriteStep \/ AclStep

SpecThreads == Init /\ [][NextThreads]_vars

InitRoute == InitRegistry /\ IdleUploader /\ IdleMultipart /\ IdlePoll /\ IdleRetry /\ IdleGateway
    /\ IdleServer /\ IdleCaches /\ IdleInstruction

NextRoute == RegisterStep \/ StartStep \/ DispatchStep \/ FinishStep

SpecRoute == InitRoute /\ [][NextRoute]_vars

InitPrefixOrder ==
    InitPrefixRegistry /\ IdleUploader /\ IdleMultipart /\ IdlePoll /\ IdleRetry /\ IdleGateway
    /\ IdleServer /\ IdleCaches /\ IdleInstruction

SpecPrefixOrder == InitPrefixOrder /\ [][NextRoute]_vars

InitLifecycle ==
    IdleRegistry /\ IdleUploader /\ IdleMultipart /\ IdlePoll /\ IdleRetry /\ IdleGateway
    /\ IdleServer /\ IdleCaches /\ IdleInstruction

NextLifecycle ==
    \/ RegisterStep \/ StartStep \/ LifecycleStep \/ ProbeStep \/ FinishStep
    \/ GetModulesStep \/ GetModuleStep

SpecLifecycle == InitLifecycle /\ [][NextLifecycle]_vars

InitMultipartSpec == InitMultipart /\ IdleUploader /\ IdleRegistry /\ IdlePoll /\ IdleRetry /\ IdleGateway
    /\ IdleServer /\ IdleCaches /\ IdleInstruction

NextMultipart == SendStep \/ ParseStep

SpecMultipart == InitMultipartSpec /\ [][NextMultipart]_vars

InitPollSpec == InitPoll /\ IdleUploader /\ IdleRegistry /\ IdleMultipart /\ IdleRetry /\ IdleGateway
    /\ IdleServer /\ IdleCaches /\ IdleInstruction

NextPoll == StartPollStep \/ LookupStep

SpecPoll == InitPollSpec /\ [][NextPoll]_vars

InitRetrySpec ==
    InitRetry /\ IdleUploader /\ IdleRegistry /\ IdleMultipart /\ IdlePoll /\ IdleGateway
    /\ IdleServer /\ IdleCaches /\ IdleInstruction

NextRetry == CallSucceedsStep \/ CallFailsStep

SpecRetry == InitRetrySpec /\ [][NextRetry]_vars

InitGatewaySpec ==
    InitGateway /\ IdleUploader /\ IdleRegistry /\ IdleMultipart /\ IdlePoll /\ IdleRetry
    /\ IdleServer /\ IdleCaches /\ IdleInstruction

NextGateway ==
    \/ ReceiveStep \/ UploadReturnsStep \/ UpstreamReturnsStep \/ SendResponseStep
    \/ CloseBlockedStep

SpecGateway == InitGatewaySpec /\ [][NextGateway]_vars

InitServerSpec ==
    InitServer /\ IdleUploader /\ IdleRegistry /\ IdleMultipart /\ IdlePoll
    /\ IdleRetry /\ IdleGateway /\ IdleCaches /\ IdleInstruction

NextServer == ConnectStep \/ AcceptStep \/ CallEndsStep \/ SleepEndsStep \/ RespondStep

SpecServer == InitServerSpec /\ [][NextServer]_vars

InitCachesSpec ==
    InitCaches /\ IdleUploader /\ IdleRegistry /\ IdleMultipart /\ IdlePoll
    /\ IdleRetry /\ IdleGateway /\ IdleServer /\ IdleInstruction

SpecCaches == InitCachesSpec /\ [][UploadThroughStep]_vars

InitInstructionSpec ==
    InitInstruction /\ IdleUploader /\ IdleRegistry /\ IdleMultipart /\ IdlePoll
    /\ IdleRetry /\ IdleGateway /\ IdleServer /\ IdleCaches

SpecInstruction == InitInstructionSpec /\ [][CreateVideoTaskStep]_vars

====
